---- MODULE Spec2Model ----
(***************************************************************************)
(* TestRailHelper (src/helpers/testrailHelper.ts): the transport primitive *)
(* `request`, the link follower `requestNext` and the entity methods,      *)
(* running against a TestRail service.                                     *)
(*                                                                         *)
(* Text is a sequence of atoms.  An atom is either one character that the  *)
(* code or a library treats specially ("/", "?", "#", "&", "=", " ", ...)  *)
(* or a run of characters none of them looks into ("index.php", "limit").  *)
(* Bytes of a response body are atoms too: an ASCII atom is its own bytes, *)
(* the character U+00E9 is the two bytes "0xC3" "0xA9".  Credentials are      *)
(* sequences of byte values, so that base64 is computed arithmetically.    *)
(***************************************************************************)
EXTENDS Integers, Sequences, FiniteSets, TLC

(* ------------------------------ bounds --------------------------------- *)

\* Greatest number of entities the service holds.
MaxItems == 3

\* Greatest number of places at which one response body is cut into chunks.
MaxSplits == 1

(* --------------------------- optional values --------------------------- *)

\* A parameter the caller left undefined / a parameter the caller supplied.
None == <<>>
Some(n) == <<n>>
IsDefined(x) == x # <<>>
ValueOf(x) == x[1]

\* JavaScript truthiness of an optional number: undefined and 0 are falsy.
Truthy(x) == IsDefined(x) /\ ValueOf(x) # 0

(* ------------------------------ sequences ------------------------------ *)

\* The concatenation of the sequences ss[lo], ..., ss[hi], and of all of ss.
RECURSIVE ConcatRange(_, _, _)
ConcatRange(ss, lo, hi) ==
    IF lo > hi THEN <<>>
    ELSE IF lo = hi THEN ss[lo]
    ELSE ConcatRange(ss, lo, (lo + hi) \div 2)
         \o ConcatRange(ss, (lo + hi) \div 2 + 1, hi)

Flatten(ss) == ConcatRange(ss, 1, Len(ss))

\* Index of the first element of s at or after position i that lies in set
\* cs; 0 when there is none.
IndexFrom(s, i, cs) ==
    IF \E j \in i..Len(s) : s[j] \in cs
    THEN CHOOSE j \in i..Len(s) :
            s[j] \in cs /\ \A k \in i..(j - 1) : s[k] \notin cs
    ELSE 0

Includes(s, a) == \E i \in 1..Len(s) : s[i] = a

\* String.prototype.startsWith / substring(1) on atoms.
StartsWith(s, a) == Len(s) > 0 /\ s[1] = a
Substring1(s) == SubSeq(s, 2, Len(s))

(* ------------------------ Buffer <-> string (UTF-8) -------------------- *)

\* The one non-ASCII character of the model, e with acute accent, and the
\* replacement character a decoder emits for a malformed sequence.
EAcute == "U+00E9"
Replacement == "U+FFFD"

\* UTF-8 encoding of a text, as the service writes a body to the socket.
Utf8Encode(text) ==
    Flatten([i \in 1..Len(text) |->
                IF text[i] = EAcute THEN <<"0xC3", "0xA9">> ELSE <<text[i]>>])

\* Buffer.prototype.toString() (UTF-8) of one chunk, which is what
\* `data += chunk` applies to each chunk on its own: a lead byte without its
\* continuation byte, and a continuation byte without its lead byte, each
\* decode to U+FFFD.
BufferToString(bytes) ==
    Flatten([i \in 1..Len(bytes) |->
                IF bytes[i] = "0xC3"
                THEN IF i < Len(bytes) /\ bytes[i + 1] = "0xA9"
                     THEN <<EAcute>>
                     ELSE <<Replacement>>
                ELSE IF bytes[i] = "0xA9"
                THEN IF i > 1 /\ bytes[i - 1] = "0xC3"
                     THEN <<>>
                     ELSE <<Replacement>>
                ELSE <<bytes[i]>>])

(* -------------------------------- base64 ------------------------------- *)

\* Buffer.from(str).toString('base64') on byte values 0..255.  A base64
\* character is its index 0..63 in the alphabet; the padding '=' is 64.
Pad == 64

RECURSIVE Base64(_)
Base64(b) ==
    IF Len(b) = 0 THEN <<>>
    ELSE IF Len(b) = 1
    THEN <<b[1] \div 4, (b[1] % 4) * 16, Pad, Pad>>
    ELSE IF Len(b) = 2
    THEN <<b[1] \div 4, (b[1] % 4) * 16 + b[2] \div 16, (b[2] % 16) * 4, Pad>>
    ELSE <<b[1] \div 4, (b[1] % 4) * 16 + b[2] \div 16,
           (b[2] % 16) * 4 + b[3] \div 64, b[3] % 64>>
         \o Base64(SubSeq(b, 4, Len(b)))

\* The service's decoding of the Authorization token.
RECURSIVE Base64Decode(_)
Base64Decode(c) ==
    IF Len(c) < 4 THEN <<>>
    ELSE (IF c[3] = Pad
          THEN <<c[1] * 4 + c[2] \div 16>>
          ELSE IF c[4] = Pad
          THEN <<c[1] * 4 + c[2] \div 16, (c[2] % 16) * 16 + c[3] \div 4>>
          ELSE <<c[1] * 4 + c[2] \div 16, (c[2] % 16) * 16 + c[3] \div 4,
                 (c[3] % 4) * 64 + c[4]>>)
         \o Base64Decode(SubSeq(c, 5, Len(c)))

\* The byte value of ':' in `${email}:${apiKey}`.
Colon == 58

(* ------------------------- URL and URLSearchParams --------------------- *)

\* Number.prototype.toString() of a natural number, as one atom.
NumberToString(n) == ToString(n)

\* URLSearchParams: append(name, value) and toString() for names and values
\* made of digits, letters and '_' (nothing is percent-encoded in them).
ParamsAppend(params, name, value) == Append(params, <<name, "=", value>>)

RECURSIVE ParamsToString(_)
ParamsToString(params) ==
    IF params = <<>> THEN <<>>
    ELSE IF Len(params) = 1 THEN Head(params)
    ELSE Head(params) \o <<"&">> \o ParamsToString(Tail(params))

\* `${queryString ? '&' + queryString : ''}`
QuerySuffix(queryString) ==
    IF queryString # <<>> THEN <<"&">> \o queryString ELSE <<>>

\* encodeURIComponent: '@' is escaped, letters, digits and '.' are kept.
EncodeURIComponent(text) ==
    [i \in 1..Len(text) |-> IF text[i] = "@" THEN "%40" ELSE text[i]]

\* The WHATWG URL parser that `new URL(endpoint, base)` runs.
\* 1. Leading and trailing C0-control-or-space characters are stripped and
\*    every tab and newline is removed.
Whitespace == {" ", "\t", "\n"}

RECURSIVE StripLeading(_)
StripLeading(s) ==
    IF s # <<>> /\ Head(s) \in Whitespace THEN StripLeading(Tail(s)) ELSE s

RECURSIVE StripTrailing(_)
StripTrailing(s) ==
    IF s # <<>> /\ s[Len(s)] \in Whitespace
    THEN StripTrailing(SubSeq(s, 1, Len(s) - 1))
    ELSE s

RemoveTabNewline(s) == SelectSeq(s, LAMBDA a : a \notin {"\t", "\n"})

\* 2. In the query of a special (http, https) URL, the characters of the
\*    special-query percent-encode set are percent-encoded.
QueryEncodeChar(a) ==
    CASE a = " "  -> "%20"
      [] a = "\"" -> "%22"
      [] a = "<"  -> "%3C"
      [] a = ">"  -> "%3E"
      [] a = "'"  -> "%27"
      [] a = EAcute -> "%C3%A9"
      [] OTHER    -> a

QueryEncode(s) == [i \in 1..Len(s) |-> QueryEncodeChar(s[i])]

\* 3. A base URL is <<scheme, "//", host>>, then <<":", port>> when a port is
\*    written, then its path.  Its parts, as the URL object exposes them.
BaseProtocol(base) == base[1]
BaseHostname(base) == base[3]
BasePort(base) == IF Len(base) >= 5 /\ base[4] = ":" THEN base[5] ELSE ""
BasePath(base) ==
    IF Len(base) >= 5 /\ base[4] = ":"
    THEN SubSeq(base, 6, Len(base))
    ELSE SubSeq(base, 4, Len(base))

\* 4. An input that starts with one '/' is a path-absolute reference: it
\*    takes scheme, host and port of the base and replaces the base's path.
\*    Its path ends at the first '?' or '#', its query at the first '#', and
\*    the fragment is not part of pathname or search.  (Every endpoint the
\*    client builds starts with "/index.php?", so this is the only case.)
NewURL(endpoint, base) ==
    LET input == RemoveTabNewline(StripTrailing(StripLeading(endpoint)))
        hash == IndexFrom(input, 1, {"#"})
        noFragment == IF hash = 0 THEN input ELSE SubSeq(input, 1, hash - 1)
        mark == IndexFrom(noFragment, 1, {"?"})
        path == IF mark = 0 THEN noFragment ELSE SubSeq(noFragment, 1, mark - 1)
        query == IF mark = 0 THEN <<>>
                 ELSE SubSeq(noFragment, mark + 1, Len(noFragment))
    IN  [ protocol |-> BaseProtocol(base),
          hostname |-> BaseHostname(base),
          port     |-> BasePort(base),
          pathname |-> path,
          search   |-> IF query = <<>> THEN <<>>
                       ELSE <<"?">> \o QueryEncode(query) ]

(* --------------------------------- JSON -------------------------------- *)

\* A JavaScript value: t is its type, n its number, s the text of a string,
\* a the elements of an array, o the members <<key, value>> of an object in
\* insertion order.
JNull == [t |-> "null", n |-> 0, s |-> <<>>, a |-> <<>>, o |-> <<>>]
JUndefined == [t |-> "undefined", n |-> 0, s |-> <<>>, a |-> <<>>, o |-> <<>>]
JNum(n) == [t |-> "num", n |-> n, s |-> <<>>, a |-> <<>>, o |-> <<>>]
JStr(s) == [t |-> "str", n |-> 0, s |-> s, a |-> <<>>, o |-> <<>>]
JArr(a) == [t |-> "arr", n |-> 0, s |-> <<>>, a |-> a, o |-> <<>>]
JObj(o) == [t |-> "obj", n |-> 0, s |-> <<>>, a |-> <<>>, o |-> o]
Member(k, v) == [k |-> k, v |-> v]

\* Array.isArray(v), and v.key (undefined when v has no such member).
IsArray(v) == v.t = "arr"
Get(v, key) ==
    IF v.t = "obj" /\ \E i \in 1..Len(v.o) : v.o[i].k = key
    THEN v.o[CHOOSE i \in 1..Len(v.o) : v.o[i].k = key].v
    ELSE JUndefined

\* JavaScript truthiness of a value.
TruthyValue(v) ==
    CASE v.t \in {"null", "undefined"} -> FALSE
      [] v.t = "num" -> v.n # 0
      [] v.t = "str" -> v.s # <<>>
      [] OTHER -> TRUE

\* The page size the service applies when a listing names no limit.
DefaultLimit == 250

\* The numbers a text of the model can hold, and their atoms.
Numbers == 0..(2 * MaxItems + 4) \cup {DefaultLimit}
NumberAtoms == {ToString(n) : n \in Numbers}
ParseNumber(atom) == CHOOSE n \in Numbers : ToString(n) = atom

\* JSON.stringify: '"' is the atom "q"; a string is "q", its text, "q".
RECURSIVE Stringify(_)
RECURSIVE StringifyElements(_)
RECURSIVE StringifyMembers(_)
Stringify(v) ==
    CASE v.t = "num" -> <<ToString(v.n)>>
      [] v.t = "str" -> <<"q">> \o v.s \o <<"q">>
      [] v.t = "arr" -> <<"[">> \o StringifyElements(v.a) \o <<"]">>
      [] v.t = "obj" -> <<"{">> \o StringifyMembers(v.o) \o <<"}">>
      [] OTHER -> <<"null">>
StringifyElements(a) ==
    IF a = <<>> THEN <<>>
    ELSE IF Len(a) = 1 THEN Stringify(a[1])
    ELSE Stringify(a[1]) \o <<",">> \o StringifyElements(Tail(a))
StringifyMembers(o) ==
    IF o = <<>> THEN <<>>
    ELSE <<"q", o[1].k, "q", ":">> \o Stringify(o[1].v)
         \o (IF Len(o) = 1 THEN <<>> ELSE <<",">> \o StringifyMembers(Tail(o)))

\* JSON.parse, by recursive descent from position i of text t: ok tells
\* whether a value was read, v is the value and nx the position after it.
ParseFail == [ok |-> FALSE, v |-> JUndefined, nx |-> 0]
ParseOk(v, nx) == [ok |-> TRUE, v |-> v, nx |-> nx]
At(t, i) == IF i >= 1 /\ i <= Len(t) THEN t[i] ELSE "EOF"

RECURSIVE ParseValue(_, _)
RECURSIVE ParseElements(_, _, _)
RECURSIVE ParseMembers(_, _, _)
ParseValue(t, i) ==
    CASE At(t, i) = "null" -> ParseOk(JNull, i + 1)
      [] At(t, i) \in NumberAtoms -> ParseOk(JNum(ParseNumber(t[i])), i + 1)
      [] At(t, i) = "q" ->
            LET j == IndexFrom(t, i + 1, {"q"})
            IN  IF j = 0 THEN ParseFail
                ELSE ParseOk(JStr(SubSeq(t, i + 1, j - 1)), j + 1)
      [] At(t, i) = "[" ->
            IF At(t, i + 1) = "]" THEN ParseOk(JArr(<<>>), i + 2)
            ELSE ParseElements(t, i + 1, <<>>)
      [] At(t, i) = "{" ->
            IF At(t, i + 1) = "}" THEN ParseOk(JObj(<<>>), i + 2)
            ELSE ParseMembers(t, i + 1, <<>>)
      [] OTHER -> ParseFail
ParseElements(t, i, acc) ==
    LET r == ParseValue(t, i)
    IN  IF ~r.ok THEN ParseFail
        ELSE IF At(t, r.nx) = "," THEN ParseElements(t, r.nx + 1, Append(acc, r.v))
        ELSE IF At(t, r.nx) = "]" THEN ParseOk(JArr(Append(acc, r.v)), r.nx + 1)
        ELSE ParseFail
ParseMembers(t, i, acc) ==
    LET key == ParseValue(t, i)
    IN  IF ~key.ok \/ key.v.t # "str" \/ Len(key.v.s) # 1
           \/ At(t, key.nx) # ":"
        THEN ParseFail
        ELSE LET r == ParseValue(t, key.nx + 1)
                 m == Member(key.v.s[1], r.v)
             IN  IF ~r.ok THEN ParseFail
                 ELSE IF At(t, r.nx) = ","
                 THEN ParseMembers(t, r.nx + 1, Append(acc, m))
                 ELSE IF At(t, r.nx) = "}"
                 THEN ParseOk(JObj(Append(acc, m)), r.nx + 1)
                 ELSE ParseFail

\* JSON.parse(data): the value, or a SyntaxError (ok = FALSE) unless the
\* whole of data is one JSON text.
JSONParse(data) ==
    LET r == ParseValue(data, 1)
    IN  IF r.ok /\ r.nx = Len(data) + 1 THEN r ELSE ParseFail

(* ---------------------- TestRailHelper: the methods -------------------- *)

\* What a method hands to this.request: endpoint, method ('GET' by default)
\* and body (undefined by default).
RequestArgs(endpoint, method, body) ==
    [endpoint |-> endpoint, method |-> method, body |-> body]

\* '/index.php?/' and '/index.php?/api/v2/'
IndexPhp == <<"/", "index.php", "?", "/">>
ApiV2 == IndexPhp \o <<"api", "/", "v2", "/">>

\* `/index.php?/api/v2/<name>/${id}`
WithId(name, id) == ApiV2 \o <<name, "/", NumberToString(id)>>

\* requestNext, had it rebuilt the request from the path of the link alone,
\* without its query parameters.
requestNext_WithoutQuery(nextLink) ==
    LET endpoint == IF StartsWith(nextLink, "/") THEN Substring1(nextLink)
                    ELSE nextLink
        cut == IndexFrom(endpoint, 1, {"&"})
    IN  RequestArgs(IndexPhp \o (IF cut = 0 THEN endpoint
                                 ELSE SubSeq(endpoint, 1, cut - 1)),
                    "GET", JUndefined)

\* requestNext, had it kept the paging parameters of the link and left out
\* its filters.
requestNext_WithoutFilters(nextLink) ==
    LET endpoint == IF StartsWith(nextLink, "/") THEN Substring1(nextLink)
                    ELSE nextLink
        InFilter(i) ==
            \E j \in (i - 3)..i :
                /\ j >= 1
                /\ j + 1 <= Len(endpoint)
                /\ endpoint[j] = "&"
                /\ endpoint[j + 1] \in {"suite_id", "section_id", "is_completed"}
        kept == Flatten([i \in 1..Len(endpoint) |->
                            IF InFilter(i) THEN <<>> ELSE <<endpoint[i]>>])
    IN  RequestArgs(IndexPhp \o kept, "GET", JUndefined)

requestNext(nextLink) ==
    LET endpoint == IF StartsWith(nextLink, "/") THEN Substring1(nextLink)
                    ELSE nextLink
    IN  RequestArgs(IndexPhp \o endpoint, "GET", JUndefined)

getProject(projectId) == RequestArgs(WithId("get_project", projectId), "GET", JUndefined)

getProjects(isCompleted, limit, offset) ==
    LET p1 == IF IsDefined(isCompleted)
              THEN ParamsAppend(<<>>, "is_completed", NumberToString(ValueOf(isCompleted)))
              ELSE <<>>
        p2 == IF IsDefined(limit)
              THEN ParamsAppend(p1, "limit", NumberToString(ValueOf(limit)))
              ELSE p1
        p3 == IF IsDefined(offset)
              THEN ParamsAppend(p2, "offset", NumberToString(ValueOf(offset)))
              ELSE p2
        queryString == ParamsToString(p3)
    IN  RequestArgs(ApiV2 \o <<"get_projects">> \o QuerySuffix(queryString),
                    "GET", JUndefined)

addProject(data) == RequestArgs(ApiV2 \o <<"add_project">>, "POST", data)
updateProject(projectId, data) ==
    RequestArgs(WithId("update_project", projectId), "POST", data)
deleteProject(projectId) ==
    RequestArgs(WithId("delete_project", projectId), "POST", JUndefined)

getSuite(suiteId) == RequestArgs(WithId("get_suite", suiteId), "GET", JUndefined)

getSuites(projectId, limit, offset) ==
    LET p1 == IF IsDefined(limit)
              THEN ParamsAppend(<<>>, "limit", NumberToString(ValueOf(limit)))
              ELSE <<>>
        p2 == IF IsDefined(offset)
              THEN ParamsAppend(p1, "offset", NumberToString(ValueOf(offset)))
              ELSE p1
        queryString == ParamsToString(p2)
    IN  RequestArgs(WithId("get_suites", projectId) \o QuerySuffix(queryString),
                    "GET", JUndefined)

addSuite(projectId, data) == RequestArgs(WithId("add_suite", projectId), "POST", data)
updateSuite(suiteId, data) == RequestArgs(WithId("update_suite", suiteId), "POST", data)
deleteSuite(suiteId) == RequestArgs(WithId("delete_suite", suiteId), "POST", JUndefined)

getSection(sectionId) == RequestArgs(WithId("get_section", sectionId), "GET", JUndefined)

getSections(projectId, suiteId, limit, offset) ==
    LET p1 == IF IsDefined(suiteId)
              THEN ParamsAppend(<<>>, "suite_id", NumberToString(ValueOf(suiteId)))
              ELSE <<>>
        p2 == IF IsDefined(limit)
              THEN ParamsAppend(p1, "limit", NumberToString(ValueOf(limit)))
              ELSE p1
        p3 == IF IsDefined(offset)
              THEN ParamsAppend(p2, "offset", NumberToString(ValueOf(offset)))
              ELSE p2
        queryString == ParamsToString(p3)
    IN  RequestArgs(WithId("get_sections", projectId) \o QuerySuffix(queryString),
                    "GET", JUndefined)

addSection(projectId, data) ==
    RequestArgs(WithId("add_section", projectId), "POST", data)
updateSection(sectionId, data) ==
    RequestArgs(WithId("update_section", sectionId), "POST", data)
deleteSection(sectionId) ==
    RequestArgs(WithId("delete_section", sectionId), "POST", JUndefined)

getCase(caseId) == RequestArgs(WithId("get_case", caseId), "GET", JUndefined)

\* options is the record of the four optional fields; an undefined options
\* object has all four undefined.  Each test is `if (options?.field)`.
getCases(projectId, options) ==
    LET p1 == IF Truthy(options.suite_id)
              THEN ParamsAppend(<<>>, "suite_id", NumberToString(ValueOf(options.suite_id)))
              ELSE <<>>
        p2 == IF Truthy(options.section_id)
              THEN ParamsAppend(p1, "section_id", NumberToString(ValueOf(options.section_id)))
              ELSE p1
        p3 == IF Truthy(options.limit)
              THEN ParamsAppend(p2, "limit", NumberToString(ValueOf(options.limit)))
              ELSE p2
        p4 == IF Truthy(options.offset)
              THEN ParamsAppend(p3, "offset", NumberToString(ValueOf(options.offset)))
              ELSE p3
        queryString == ParamsToString(p4)
    IN  RequestArgs(WithId("get_cases", projectId) \o QuerySuffix(queryString),
                    "GET", JUndefined)

addCase(sectionId, data) == RequestArgs(WithId("add_case", sectionId), "POST", data)
updateCase(caseId, data) == RequestArgs(WithId("update_case", caseId), "POST", data)
deleteCase(caseId) == RequestArgs(WithId("delete_case", caseId), "POST", JUndefined)

getGroup(groupId) == RequestArgs(WithId("get_group", groupId), "GET", JUndefined)

getGroups(limit, offset) ==
    LET p1 == IF IsDefined(limit)
              THEN ParamsAppend(<<>>, "limit", NumberToString(ValueOf(limit)))
              ELSE <<>>
        p2 == IF IsDefined(offset)
              THEN ParamsAppend(p1, "offset", NumberToString(ValueOf(offset)))
              ELSE p1
        queryString == ParamsToString(p2)
    IN  RequestArgs(ApiV2 \o <<"get_groups">> \o QuerySuffix(queryString),
                    "GET", JUndefined)

addGroup(data) == RequestArgs(ApiV2 \o <<"add_group">>, "POST", data)

\* { ...data, group_id: groupId }
updateGroup(groupId, data) ==
    RequestArgs(WithId("update_group", groupId), "POST",
                JObj(SelectSeq(data.o, LAMBDA m : m.k # "group_id")
                     \o <<Member("group_id", JNum(groupId))>>))
deleteGroup(groupId) == RequestArgs(WithId("delete_group", groupId), "POST", JUndefined)

getUser(userId) == RequestArgs(WithId("get_user", userId), "GET", JUndefined)

getUserByEmail(email) ==
    RequestArgs(ApiV2 \o <<"get_user_by_email", "&", "email", "=">>
                \o EncodeURIComponent(email), "GET", JUndefined)

\* `projectId ? `&project_id=${projectId}` : ''`
getUsers(projectId) ==
    LET params == IF Truthy(projectId)
                  THEN <<"&", "project_id", "=", NumberToString(ValueOf(projectId))>>
                  ELSE <<>>
    IN  RequestArgs(ApiV2 \o <<"get_users">> \o params, "GET", JUndefined)

getPriorities == RequestArgs(ApiV2 \o <<"get_priorities">>, "GET", JUndefined)

(* ---------------------- TestRailHelper.request ------------------------- *)

\* The settlement of a promise.
NoError == [name |-> "", message |-> <<>>]
Pending == [kind |-> "pending", value |-> JUndefined, error |-> NoError]
Resolved(v) == [kind |-> "resolved", value |-> v, error |-> NoError]
Rejected(e) == [kind |-> "rejected", value |-> JUndefined, error |-> e]

\* new Error(message)
Error(message) == [name |-> "Error", message |-> message]

\* The token of the two credentials in the other order.
AuthToken_KeyFirst(cfg) == Base64(cfg.apiKey \o <<Colon>> \o cfg.email)

\* Buffer.from(`${email}:${apiKey}`).toString('base64')
AuthToken(cfg) == Base64(cfg.email \o <<Colon>> \o cfg.apiKey)

\* The synchronous part of request(endpoint, method, body): the URL, the
\* auth token, the options, `if (body) req.write(JSON.stringify(body))` and
\* req.end().  The result is the HTTP request put on the wire.
request(cfg, args) ==
    LET url == NewURL(args.endpoint, cfg.baseUrl)
        auth == AuthToken(cfg)
    IN  [ protocol |-> IF url.protocol = "https:" THEN "https" ELSE "http",
          hostname |-> url.hostname,
          port     |-> url.port,
          path     |-> url.pathname \o url.search,
          method   |-> args.method,
          headers  |-> [ Authorization |-> [scheme |-> "Basic", token |-> auth],
                         ContentType   |-> "application/json",
                         Accept        |-> "application/json" ],
          body     |-> IF TruthyValue(args.body) THEN Stringify(args.body)
                       ELSE <<>> ]

\* The requests one call of a method puts on the wire: this.request is
\* called once and sends once.
Transmit(cfg, args) == <<request(cfg, args)>>

\* res.on('data'): data += chunk
OnDataChunk(data, chunk) == data \o BufferToString(chunk)

\* res 'end', had it taken the answer "no such entity" of a delete for done.
OnEndSettle_MissingIsDone(statusCode, data) ==
    IF (statusCode >= 200 /\ statusCode < 300) \/ statusCode \in {400, 404}
    THEN Resolved(JObj(<<>>))
    ELSE Rejected(Error(<<"TestRail API error: ", ToString(statusCode), " - ">>
                        \o data))

\* res.on('end')
OnEndSettle(statusCode, data) ==
    IF statusCode >= 200 /\ statusCode < 300
    THEN IF data # <<>>
         THEN LET parsed == JSONParse(data)
              IN  IF parsed.ok THEN Resolved(parsed.v) ELSE Resolved(JStr(data))
         ELSE Resolved(JObj(<<>>))
    ELSE Rejected(Error(<<"TestRail API error: ", ToString(statusCode), " - ">>
                        \o data))

\* req.on('error')
OnErrorSettle(error) == Rejected(error)

\* A method that returns the response as it is, whatever its shape.
MethodReturn_AsIs(method, response) == response

\* What a method does with the response it awaited.  getUsers and
\* getPriorities reshape it; every other method returns it as it is.
MethodReturn(method, response) ==
    CASE method = "getUsers" ->
            IF IsArray(response) THEN response
            ELSE IF TruthyValue(response) /\ TruthyValue(Get(response, "users"))
                    /\ IsArray(Get(response, "users"))
            THEN Get(response, "users")
            ELSE JArr(<<>>)
      [] method = "getPriorities" ->
            IF IsArray(response) THEN response ELSE JArr(<<>>)
      [] OTHER -> response

\* A method that catches the failure of its request and returns an empty
\* list in its place.
MethodSettle_EmptyOnFailure(method, settlement) ==
    IF settlement.kind = "resolved"
    THEN Resolved(MethodReturn(method, settlement.value))
    ELSE Resolved(JArr(<<>>))

\* The method's own promise, from the settlement of the request it awaits:
\* no method has a catch, so a rejection passes through.
MethodSettle(method, settlement) ==
    IF settlement.kind = "resolved"
    THEN Resolved(MethodReturn(method, settlement.value))
    ELSE settlement

(* --------------------------- the TestRail service ---------------------- *)

\* The accounts the service knows, with the role of each.
AdminEmail == <<97, 64, 98>>
AdminKey == <<107, 49>>
TesterEmail == <<116, 64, 98>>
TesterKey == <<107>>

\* The role the Authorization header proves: the token decodes to
\* email ':' key of an account, or to nothing the service knows.
RoleOf(authorization) ==
    LET plain == Base64Decode(authorization.token)
    IN  IF authorization.scheme # "Basic" THEN "none"
        ELSE IF plain = AdminEmail \o <<Colon>> \o AdminKey THEN "admin"
        ELSE IF plain = TesterEmail \o <<Colon>> \o TesterKey THEN "tester"
        ELSE "none"

\* The entity with id i, as the listing of its kind shows it.  Suites,
\* sections and cases all belong to project 1.
Entity(i) ==
    [id |-> i, suite_id |-> 1 + (i % 2), section_id |-> 1 + (i % 2),
     is_completed |-> i % 2]

\* The ids of a set, in ascending order.
RECURSIVE Ascending(_)
Ascending(S) ==
    IF S = {} THEN <<>>
    ELSE LET m == CHOOSE x \in S : \A y \in S : x <= y
         IN  <<m>> \o Ascending(S \ {m})

\* The parameters "&key=value..." of a request path, as <<key, value>>
\* pairs with the value a text; ok is FALSE for anything else.
RECURSIVE ParseParams(_)
ParseParams(s) ==
    IF s = <<>> THEN [ok |-> TRUE, params |-> <<>>]
    ELSE IF Len(s) < 4 \/ s[1] # "&" \/ s[2] \in {"&", "=", "/"} \/ s[3] # "="
    THEN [ok |-> FALSE, params |-> <<>>]
    ELSE LET nxt == IndexFrom(s, 4, {"&"})
             stop == IF nxt = 0 THEN Len(s) + 1 ELSE nxt
             rest == ParseParams(SubSeq(s, stop, Len(s)))
         IN  IF stop = 4 \/ ~rest.ok THEN [ok |-> FALSE, params |-> <<>>]
             ELSE [ok |-> TRUE,
                   params |-> <<[k |-> s[2], v |-> SubSeq(s, 4, stop - 1)]>>
                              \o rest.params]

\* The path '/index.php?/api/v2/<op>[/<id>][&key=value...]' taken apart.
ParsePath(path) ==
    IF Len(path) < 9 \/ SubSeq(path, 1, 8) # ApiV2
    THEN [ok |-> FALSE, op |-> "", id |-> None, params |-> <<>>]
    ELSE LET hasId == At(path, 10) = "/" /\ At(path, 11) \in NumberAtoms
             rest == ParseParams(SubSeq(path, IF hasId THEN 12 ELSE 10, Len(path)))
         IN  [ok |-> rest.ok, op |-> path[9],
              id |-> IF hasId THEN Some(ParseNumber(path[11])) ELSE None,
              params |-> rest.params]

HasParam(params, key) == \E i \in 1..Len(params) : params[i].k = key
Param(params, key) ==
    params[CHOOSE i \in 1..Len(params) : params[i].k = key].v
\* A parameter that must be a number when present.
NumericOrAbsent(params, key) ==
    HasParam(params, key) =>
        Len(Param(params, key)) = 1 /\ Param(params, key)[1] \in NumberAtoms
NumParam(params, key, default) ==
    IF HasParam(params, key) THEN ParseNumber(Param(params, key)[1]) ELSE default

\* The filters each listing knows, in the order its links write them.
FiltersOf(op) ==
    CASE op = "get_projects" -> <<"is_completed">>
      [] op = "get_sections" -> <<"suite_id">>
      [] op = "get_cases"    -> <<"suite_id", "section_id">>
      [] OTHER               -> <<>>

PluralOf(op) ==
    CASE op = "get_projects" -> "projects"
      [] op = "get_suites"   -> "suites"
      [] op = "get_sections" -> "sections"
      [] op = "get_cases"    -> "cases"
      [] OTHER               -> "groups"

PagedOps == {"get_projects", "get_suites", "get_sections", "get_cases", "get_groups"}
ScopedOps == {"get_suites", "get_sections", "get_cases"}

\* The entities a listing request selects, in id order: those of the
\* project named in the path that pass every filter the request carries.
Matches(e, op, params) ==
    \A i \in 1..Len(FiltersOf(op)) :
        LET f == FiltersOf(op)[i]
        IN  HasParam(params, f) => e[f] = NumParam(params, f, 0)

Selected(ids, op, id, params) ==
    IF op \in ScopedOps /\ id # Some(1) THEN <<>>
    ELSE SelectSeq(Ascending(ids), LAMBDA i : Matches(Entity(i), op, params))

\* The continuation link of a listing, as in
\* '/api/v2/get_sections/16&suite_id=142&limit=250&offset=250'.
RECURSIVE FilterText(_, _)
FilterText(filters, params) ==
    IF filters = <<>> THEN <<>>
    ELSE (IF HasParam(params, Head(filters))
          THEN <<"&", Head(filters), "=">> \o Param(params, Head(filters))
          ELSE <<>>)
         \o FilterText(Tail(filters), params)

LinkTo(op, id, params, limit, offset) ==
    <<"/", "api", "/", "v2", "/", op>>
    \o (IF IsDefined(id) THEN <<"/", ToString(ValueOf(id))>> ELSE <<>>)
    \o FilterText(FiltersOf(op), params)
    \o <<"&", "limit", "=", ToString(limit), "&", "offset", "=", ToString(offset)>>

ItemJson(i) ==
    JObj(<<Member("id", JNum(i)), Member("suite_id", JNum(Entity(i).suite_id))>>)

\* An envelope whose size is the number of all the entities selected.
Envelope_SizeIsTotal(ids, op, id, params) ==
    LET all == Selected(ids, op, id, params)
        limit == NumParam(params, "limit", DefaultLimit)
        offset == NumParam(params, "offset", 0)
        last == IF offset + limit < Len(all) THEN offset + limit ELSE Len(all)
        page == SubSeq(all, offset + 1, last)
        next == IF offset + limit < Len(all)
                THEN JStr(LinkTo(op, id, params, limit, offset + limit))
                ELSE JNull
    IN  JObj(<<Member("offset", JNum(offset)),
               Member("limit", JNum(limit)),
               Member("size", JNum(Len(all))),
               Member("_links", JObj(<<Member("next", next), Member("prev", JNull)>>)),
               Member(PluralOf(op), JArr([k \in 1..Len(page) |-> ItemJson(page[k])]))>>)

\* The envelope of one page.  As in the sample response, size counts the
\* entities of the page.
Envelope(ids, op, id, params) ==
    LET all == Selected(ids, op, id, params)
        limit == NumParam(params, "limit", DefaultLimit)
        offset == NumParam(params, "offset", 0)
        last == IF offset + limit < Len(all) THEN offset + limit ELSE Len(all)
        page == SubSeq(all, offset + 1, last)
        next == IF offset + limit < Len(all)
                THEN JStr(LinkTo(op, id, params, limit, offset + limit))
                ELSE JNull
        prev == IF offset > 0
                THEN JStr(LinkTo(op, id, params, limit,
                                 IF offset > limit THEN offset - limit ELSE 0))
                ELSE JNull
    IN  JObj(<<Member("offset", JNum(offset)),
               Member("limit", JNum(limit)),
               Member("size", JNum(Len(page))),
               Member("_links", JObj(<<Member("next", next), Member("prev", prev)>>)),
               Member(PluralOf(op), JArr([k \in 1..Len(page) |-> ItemJson(page[k])]))>>)

\* The body of an error answer, {"error": "<reason>"}.
ErrorJson(reason) == JObj(<<Member("error", JStr(<<reason>>))>>)

\* One entity as the singular operations show it; its name is not ASCII.
EntityJson(i) ==
    JObj(<<Member("id", JNum(i)), Member("name", JStr(<<"Caf", EAcute>>))>>)

\* The entity an add or update answers with: the members sent, under its id.
Confirmed(i, sent) ==
    JObj(<<Member("id", JNum(i))>>
         \o SelectSeq(IF sent.t = "obj" THEN sent.o ELSE <<>>,
                      LAMBDA m : m.k # "id"))

GetOps == {"get_project", "get_suite", "get_section", "get_case", "get_group",
           "get_user"}
AddOps == {"add_project", "add_suite", "add_section", "add_case", "add_group"}
UpdateOps == {"update_project", "update_suite", "update_section", "update_case",
              "update_group"}
DeleteOps == {"delete_project", "delete_suite", "delete_section", "delete_case",
              "delete_group"}
AdminOps == {"get_groups", "get_group", "add_group", "update_group", "delete_group"}

NextId(ids) == IF ids = {} THEN 1 ELSE 1 + (CHOOSE x \in ids : \A y \in ids : y <= x)

Answer(statusCode, text, ids) == [statusCode |-> statusCode, body |-> text, ids |-> ids]

\* The service's answer to one request, with the entities it holds after.
ServiceAnswer(ids, req) ==
    LET p == ParsePath(req.path)
        role == RoleOf(req.headers.Authorization)
        sent == JSONParse(req.body)
        ok(v) == Answer(200, Stringify(v), ids)
        bad(reason) == Answer(400, Stringify(ErrorJson(reason)), ids)
    IN  CASE role = "none" ->
                Answer(401, Stringify(ErrorJson("Authentication failed")), ids)
          [] role # "none" /\ (Len(req.path) < 9 \/ SubSeq(req.path, 1, 8) # ApiV2
                               \/ p.op \notin PagedOps \cup GetOps \cup AddOps
                                      \cup UpdateOps \cup DeleteOps
                                      \cup {"get_users", "get_priorities",
                                            "get_user_by_email"}) ->
                Answer(404, Stringify(ErrorJson("Unknown method")), ids)
          [] OTHER ->
            IF ~p.ok THEN bad("Malformed request")
            ELSE IF (p.op \in AddOps \cup UpdateOps \cup DeleteOps) # (req.method = "POST")
            THEN Answer(405, Stringify(ErrorJson("Method not allowed")), ids)
            ELSE IF p.op \in AdminOps /\ role # "admin"
            THEN Answer(403, Stringify(ErrorJson("Insufficient permissions")), ids)
            ELSE IF p.op \in PagedOps
            THEN IF p.op \in ScopedOps /\ (~IsDefined(p.id) \/ ValueOf(p.id) \notin ids)
                 THEN bad("Field :project_id is not a valid project")
                 ELSE IF ~(\A k \in {"limit", "offset", "suite_id", "section_id",
                                     "is_completed"} : NumericOrAbsent(p.params, k))
                         \/ NumParam(p.params, "limit", DefaultLimit) = 0
                 THEN bad("Field is not a valid number")
                 ELSE ok(Envelope(ids, p.op, p.id, p.params))
            ELSE IF p.op = "get_users"
            THEN IF ~HasParam(p.params, "project_id") /\ role # "admin"
                 THEN Answer(403, Stringify(ErrorJson("Insufficient permissions")), ids)
                 ELSE ok(JArr([k \in 1..Len(Ascending(ids)) |->
                                  EntityJson(Ascending(ids)[k])]))
            ELSE IF p.op = "get_priorities"
            THEN ok(JArr(<<JObj(<<Member("id", JNum(1)),
                                  Member("name", JStr(<<"Low">>))>>)>>))
            ELSE IF p.op = "get_user_by_email"
            THEN IF HasParam(p.params, "email")
                    /\ Param(p.params, "email") = <<"a", "%40", "b">>
                 THEN ok(EntityJson(1))
                 ELSE bad("Field :email is not a valid email")
            ELSE IF p.op \in AddOps
            THEN IF ~sent.ok THEN bad("Field :name is required")
                 ELSE Answer(200, Stringify(Confirmed(NextId(ids), sent.v)),
                             ids \cup {NextId(ids)})
            ELSE IF ~IsDefined(p.id) \/ ValueOf(p.id) \notin ids
            THEN bad("Field :id is not a valid id")
            ELSE IF p.op = "get_suite"
            THEN ok(JObj(EntityJson(ValueOf(p.id)).o
                         \o <<Member("project_id", JNum(1))>>))
            ELSE IF p.op \in GetOps THEN ok(EntityJson(ValueOf(p.id)))
            ELSE IF p.op \in UpdateOps
            THEN IF ~sent.ok THEN bad("Malformed body")
                 ELSE ok(Confirmed(ValueOf(p.id), sent.v))
            ELSE Answer(200, <<>>, ids \ {ValueOf(p.id)})

\* What stands between client and service may answer in the service's
\* place: an error page of a gateway, or a page with status 200.
HtmlPage == <<"<html>", "Caf", EAcute, "</html>">>
\* The bodies a deployment may answer get_users and get_priorities with,
\* status 200, besides the bare array of the service: the list inside an
\* object, inside a paginated envelope, under another name, not a list at
\* all, and JSON that is no object.
ListShapes ==
    LET users == JArr(<<EntityJson(1), EntityJson(2)>>)
        links == JObj(<<Member("next", JStr(LinkTo("get_users", None, <<>>, 2, 2))),
                        Member("prev", JNull)>>)
        paged(name) == JObj(<<Member("offset", JNum(0)), Member("limit", JNum(2)),
                              Member("size", JNum(2)), Member("_links", links),
                              Member(name, users)>>)
    IN  [ inObject     |-> JObj(<<Member("users", users)>>),
          inEnvelope   |-> paged("users"),
          otherName    |-> paged("priorities"),
          notAList     |-> JObj(<<Member("users", JObj(<<Member("id", JNum(1))>>))>>),
          nullList     |-> JObj(<<Member("users", JNull)>>),
          emptyObject  |-> JObj(<<>>),
          emptyArray   |-> JArr(<<>>),
          null         |-> JNull,
          number       |-> JNum(0),
          string       |-> JStr(<<"ok">>) ]

Modes == {"service", "gateway error", "login page"} \cup DOMAIN ListShapes
AnswerIn(mode, ids, req) ==
    CASE mode = "gateway error" -> Answer(502, HtmlPage, ids)
      [] mode = "login page"    -> Answer(200, HtmlPage, ids)
      [] mode \in DOMAIN ListShapes
         /\ ParsePath(req.path).op \in {"get_users", "get_priorities"} ->
            Answer(200, Stringify(ListShapes[mode]), ids)
      [] OTHER                  -> ServiceAnswer(ids, req)

\* The ways the socket delivers the bytes of a body: cut after each position
\* of a set of cut points.  A cut between two characters decodes as no cut
\* does (BufferToString maps whole characters one to one), so one such cut
\* stands for all of them, and only in a body that has no multi-byte
\* character; every cut inside a multi-byte character is taken.
CutPoints(bytes) ==
    LET inside == {i \in 1..(Len(bytes) - 1) : bytes[i] = "0xC3"}
    IN  IF inside # {} THEN inside ELSE {i \in 1..(Len(bytes) - 1) : i = 1}

RECURSIVE CutAt(_, _, _)
CutAt(bytes, from, cuts) ==
    IF cuts = <<>> THEN <<SubSeq(bytes, from, Len(bytes))>>
    ELSE <<SubSeq(bytes, from, Head(cuts))>> \o CutAt(bytes, Head(cuts) + 1, Tail(cuts))

Chunkings(bytes) ==
    IF bytes = <<>> THEN {<<>>}
    ELSE {CutAt(bytes, 1, Ascending(S)) :
            S \in {T \in SUBSET CutPoints(bytes) : Cardinality(T) <= MaxSplits}}

(* ------------------------------ the callers ---------------------------- *)

\* One call of a method: its name and its arguments (None, the empty text
\* or undefined for those the method does not take).
NoCall ==
    [method |-> "none", id |-> None, is_completed |-> None, suite_id |-> None,
     section_id |-> None, project_id |-> None, limit |-> None, offset |-> None,
     link |-> <<>>, email |-> <<>>, data |-> JUndefined,
     tool |-> "none", input |-> [limit |-> None, offset |-> None],
     document |-> <<>>, yaml |-> JUndefined]

\* What the call hands to this.request.
ArgsOf(c) ==
    LET id == IF IsDefined(c.id) THEN ValueOf(c.id) ELSE 0
    IN  CASE c.method = "requestNext"    -> requestNext(c.link)
          [] c.method = "getProject"     -> getProject(id)
          [] c.method = "getProjects"    -> getProjects(c.is_completed, c.limit, c.offset)
          [] c.method = "addProject"     -> addProject(c.data)
          [] c.method = "updateProject"  -> updateProject(id, c.data)
          [] c.method = "deleteProject"  -> deleteProject(id)
          [] c.method = "getSuite"       -> getSuite(id)
          [] c.method = "getSuites"      -> getSuites(id, c.limit, c.offset)
          [] c.method = "addSuite"       -> addSuite(id, c.data)
          [] c.method = "updateSuite"    -> updateSuite(id, c.data)
          [] c.method = "deleteSuite"    -> deleteSuite(id)
          [] c.method = "getSection"     -> getSection(id)
          [] c.method = "getSections"    -> getSections(id, c.suite_id, c.limit, c.offset)
          [] c.method = "addSection"     ->
                IF IsDefined(c.id) THEN addSection(id, c.data)
                ELSE RequestArgs(ApiV2 \o <<"add_section", "/", "undefined">>,
                                 "POST", c.data)
          [] c.method = "updateSection"  -> updateSection(id, c.data)
          [] c.method = "deleteSection"  -> deleteSection(id)
          [] c.method = "getCase"        -> getCase(id)
          [] c.method = "getCases"       ->
                getCases(id, [suite_id |-> c.suite_id, section_id |-> c.section_id,
                              limit |-> c.limit, offset |-> c.offset])
          [] c.method = "addCase"        -> addCase(id, c.data)
          [] c.method = "updateCase"     -> updateCase(id, c.data)
          [] c.method = "deleteCase"     -> deleteCase(id)
          [] c.method = "getGroup"       -> getGroup(id)
          [] c.method = "getGroups"      -> getGroups(c.limit, c.offset)
          [] c.method = "addGroup"       -> addGroup(c.data)
          [] c.method = "updateGroup"    -> updateGroup(id, c.data)
          [] c.method = "deleteGroup"    -> deleteGroup(id)
          [] c.method = "getUser"        -> getUser(id)
          [] c.method = "getUserByEmail" -> getUserByEmail(c.email)
          [] c.method = "getUsers"       -> getUsers(c.project_id)
          [] OTHER                       -> getPriorities

\* The arguments the callers of the model pass.
Ids == {1, 2}
Filters == {None, Some(0), Some(2)}
Limits == {None, Some(0), Some(1), Some(2)}
Offsets == {None, Some(0), Some(1)}
\* <<limit, offset>> of the listings whose filters vary as well.
Pagings == {<<None, None>>, <<Some(0), None>>, <<None, Some(0)>>,
            <<Some(1), None>>, <<Some(1), Some(0)>>, <<Some(2), Some(1)>>}
\* <<suite_id, section_id>> of getCases.
CaseFilters == {<<None, None>>, <<Some(0), None>>, <<None, Some(0)>>,
                <<Some(2), None>>, <<Some(2), Some(2)>>}
EmptyPatch == JObj(<<>>)
NamePatch == JObj(<<Member("name", JStr(<<"Caf", EAcute>>))>>)
Emails == {<<"a", "@", "b">>, <<"x", "@", "y">>}

\* Links no response of the service holds.
OtherLinks ==
    { <<>>,
      <<"api", "/", "v2", "/", "get_projects">>,
      <<"/", "/", "api", "/", "v2", "/", "get_projects">>,
      <<"/", "api", "/", "v2", "/", "get_cases", "/", "1", "&", "filter", "=",
        "a", " ", "b", "&", "limit", "=", "1">>,
      <<"/", "api", "/", "v2", "/", "get_cases", "/", "1", "&", "refs", "=",
        "#", "7", "&", "limit", "=", "1">>,
      <<"/", "api", "/", "v2", "/", "get_suites", "/", "1", "&", "limit", "=",
        "1", "\n">> }

GetOneMethods == {"getProject", "getSuite", "getSection", "getCase", "getGroup",
                  "getUser"}
AddMethods == {"addProject", "addSuite", "addSection", "addCase", "addGroup"}
UpdateMethods == {"updateProject", "updateSuite", "updateSection", "updateCase",
                  "updateGroup"}
DeleteMethods == {"deleteProject", "deleteSuite", "deleteSection", "deleteCase",
                  "deleteGroup"}
PagedMethods == {"getProjects", "getSuites", "getSections", "getCases", "getGroups"}

\* `_links.next` and `_links.prev` of a value, when they are strings.
LinkOf(v, which) == Get(Get(v, "_links"), which)
LinksOf(v) ==
    {LinkOf(v, w).s : w \in {w2 \in {"next", "prev"} : LinkOf(v, w2).t = "str"}}

\* The calls a caller makes of its own accord.
Calls(ids) ==
    {[NoCall EXCEPT !.method = m, !.id = Some(i)] : m \in GetOneMethods, i \in Ids}
    \cup {[NoCall EXCEPT !.method = "getProjects", !.is_completed = f,
                         !.limit = p[1], !.offset = p[2]] :
            f \in {None, Some(0), Some(1)}, p \in Pagings}
    \cup {[NoCall EXCEPT !.method = "getSuites", !.id = Some(1), !.limit = l,
                         !.offset = o] : l \in Limits, o \in Offsets}
    \cup {[NoCall EXCEPT !.method = "getSections", !.id = Some(1), !.suite_id = f,
                         !.limit = l, !.offset = o] :
            f \in Filters, l \in Limits, o \in Offsets}
    \cup {[NoCall EXCEPT !.method = "getCases", !.id = Some(1), !.suite_id = f[1],
                         !.section_id = f[2], !.limit = p[1], !.offset = p[2]] :
            f \in CaseFilters, p \in Pagings}
    \cup {[NoCall EXCEPT !.method = "getGroups", !.limit = p[1], !.offset = p[2]] :
            p \in Pagings}
    \cup {[NoCall EXCEPT !.method = "getUsers", !.project_id = f] :
            f \in {None, Some(0), Some(1)}}
    \cup {[NoCall EXCEPT !.method = "getPriorities"]}
    \cup {[NoCall EXCEPT !.method = "getUserByEmail", !.email = e] : e \in Emails}
    \cup {[NoCall EXCEPT !.method = m, !.id = Some(1), !.data = NamePatch] :
            m \in {m2 \in AddMethods : NextId(ids) <= MaxItems}}
    \cup {[NoCall EXCEPT !.method = m, !.id = Some(i), !.data = NamePatch] :
            m \in UpdateMethods, i \in Ids}
    \cup {[NoCall EXCEPT !.method = m, !.id = Some(1), !.data = EmptyPatch] :
            m \in UpdateMethods}
    \cup {[NoCall EXCEPT !.method = m, !.id = Some(i)] : m \in DeleteMethods, i \in Ids}
    \cup {[NoCall EXCEPT !.method = "requestNext", !.link = k] : k \in OtherLinks}

(* ------------------------------- the state ----------------------------- *)

VARIABLES
    config,     \* this.config of the TestRailHelper
    supplied,   \* the configuration its constructor was given
    held,       \* the ids of the entities the service holds
    pc,         \* "idle", "sent" (request written), "receiving" (response
                \* begun), "settled" (the caller has its result)
    call,       \* the method call in progress, or the last one
    wire,       \* the HTTP requests that call has put on the wire
    res,        \* the response: status, chunks not yet delivered, all its bytes
    data,       \* `data` of the response callback
    settled,    \* the promise of this.request
    outcome,    \* the promise of the method
    follow,     \* the caller's walk along _links.next
    again,      \* the call before, when the caller repeats it
    sites,      \* the calls of several call sites outstanding at once
    startup,    \* what the extension finds when it is activated
    editor,     \* the editor window: its documents and the preview panels
    script,     \* a script of tests/ that is run from the command line
    tree        \* the TestRailTreeProvider: its caches and its fetches

\* The variables of one call at a time, and the others.
helper == <<config, supplied, held, pc, call, wire, res, data, settled, outcome, follow,
           again>>
others == <<sites, startup, editor, script, tree>>
vars == <<helper, others>>

\* The configurations a helper is constructed with: the administrator's
\* account, a tester's account behind a base URL with a port and a path,
\* and an account with a key the service does not know.
Configs ==
    { [baseUrl |-> <<"https:", "//", "example.testrail.io">>,
       email |-> AdminEmail, apiKey |-> AdminKey],
      [baseUrl |-> <<"http:", "//", "localhost", ":", "8080", "/", "testrail", "/">>,
       email |-> TesterEmail, apiKey |-> TesterKey],
      [baseUrl |-> <<"https:", "//", "example.testrail.io">>,
       email |-> AdminEmail, apiKey |-> <<120, 121, 122>>] }

NoResponse == [statusCode |-> 0, chunks |-> <<>>, body |-> <<>>]

\* A walk: the request path of the listing it began with, the envelope before
\* the last one, the last one, the ids of the pages so far and their number.
NoFollow ==
    [state |-> "none", origin |-> <<>>, prev |-> JUndefined, env |-> JUndefined,
     acc |-> <<>>, pages |-> 0]

IsEnvelope(v) ==
    /\ v.t = "obj"
    /\ Get(v, "offset").t = "num"
    /\ Get(v, "limit").t = "num"
    /\ Get(v, "_links").t = "obj"
    /\ \E i \in 1..Len(v.o) : v.o[i].v.t = "arr"

\* The ids of the entities of an envelope's page.
PageIds(v) ==
    LET page == v.o[CHOOSE i \in 1..Len(v.o) : v.o[i].v.t = "arr"].v.a
    IN  [k \in 1..Len(page) |-> Get(page[k], "id").n]

\* The call sites that hold the one helper of the extension and call it
\* without waiting for each other.
Sites == {"tree view", "language model tool"}

\* One call of a site: where it is, its request, the response, the chunks the
\* 'data' event has delivered so far, `data` and the promise of the method.
NoExchange ==
    [pc |-> "idle", call |-> NoCall, wire |-> <<>>, res |-> NoResponse,
     got |-> <<>>, data |-> <<>>, outcome |-> Pending]

\* A value a setting or an environment variable may have: none at all
\* (undefined), or a string, which may be empty.  `a || b` takes b when a is
\* undefined or the empty string.
Undefined == [defined |-> FALSE, text |-> <<>>]
String(text) == [defined |-> TRUE, text |-> text]
Or(a, b) == IF ~a.defined \/ a.text = <<>> THEN b ELSE a

\* The extension before it is activated: the settings of testrailTools, the
\* environment variables, and whether require('vscode') succeeds.
NotStarted ==
    [settings |-> [baseUrl |-> Undefined, email |-> Undefined, apiKey |-> Undefined],
     env |-> [baseUrl |-> Undefined, email |-> Undefined, apiKey |-> Undefined],
     vscode |-> TRUE, activated |-> FALSE]

\* No call has been made.
\* No call is repeated: `first` is the status the call before was answered
\* with and the promise it settled.
NoRepeat == [times |-> 0, first |-> NoResponse.statusCode, settled |-> Pending]

\* The editor window with no document open and no preview panel:
\* previewPanels = new Map().
NoEditor ==
    [opened |-> {}, active |-> <<>>, previewPanels |-> {}, panels |-> {},
     disposed |-> {}, text |-> <<>>, message |-> "none",
     dialog |-> [state |-> "none", choice |-> "none", from |-> "none",
                 document |-> <<>>, item |-> 0],
     files |-> <<>>, written |-> <<>>,
     pending |-> <<>>, version |-> 1, edited |-> JUndefined, overlapped |-> FALSE,
     messages |-> 0]

\* No script is running, and no tree view is shown.
NoScript == [pc |-> "none"]

NoTree == [pc |-> "none"]

NoCalls ==
    /\ pc = "idle"
    /\ call = NoCall
    /\ wire = <<>>
    /\ res = NoResponse
    /\ data = <<>>
    /\ settled = Pending
    /\ outcome = Pending
    /\ follow = NoFollow
    /\ again = NoRepeat
    /\ sites = [s \in Sites |-> NoExchange]

Init ==
    /\ config \in Configs
    /\ supplied = config
    /\ held \in {1..n : n \in 0..MaxItems}
    /\ pc = "idle"
    /\ call = NoCall
    /\ wire = <<>>
    /\ res = NoResponse
    /\ data = <<>>
    /\ settled = Pending
    /\ outcome = Pending
    /\ follow = NoFollow
    /\ again = NoRepeat
    /\ sites = [s \in Sites |-> NoExchange]
    /\ startup = NotStarted
    /\ editor = NoEditor
    /\ script = NoScript
    /\ tree = NoTree

(* ------------------------------ the actions ---------------------------- *)

\* The call c begins: the method builds its endpoint and calls this.request,
\* which writes the request and returns the pending promise.  A listing
\* begins a walk; requestNext with the next link of the walk's last envelope
\* goes on with it.
Start(c) ==
    /\ call' = c
    /\ wire' = Transmit(config, ArgsOf(c))
    /\ follow' =
         IF /\ c.method = "requestNext"
            /\ follow.state = "page"
            /\ follow.pages <= MaxItems
            /\ LinkOf(follow.env, "next") = JStr(c.link)
         THEN [follow EXCEPT !.state = "following"]
         ELSE IF c.method \in PagedMethods
         THEN [NoFollow EXCEPT !.state = "first",
                               !.origin = request(config, ArgsOf(c)).path]
         ELSE NoFollow
    /\ again' = IF pc = "settled" /\ c = call
                THEN [times |-> again.times + 1, first |-> res.statusCode,
                      settled |-> outcome]
                ELSE NoRepeat
    /\ pc' = "sent"
    /\ res' = NoResponse
    /\ data' = <<>>
    /\ settled' = Pending
    /\ outcome' = Pending
    /\ UNCHANGED <<config, supplied, held>>

\* A caller that does nothing else in the step.
Begin(c) == Start(c) /\ UNCHANGED others

\* A caller calls a method.
Invoke ==
    /\ pc = "idle"
    /\ \E c \in Calls(held) : Begin(c)

\* A caller passes a link of the envelope it was returned to requestNext.
FollowLink ==
    /\ pc = "settled"
    /\ \E k \in LinksOf(outcome.value) :
         Begin([NoCall EXCEPT !.method = "requestNext", !.link = k])

\* A caller that has deleted an entity calls the same delete method with the
\* same id once more.
Repeat ==
    /\ pc = "settled"
    /\ call.method \in DeleteMethods
    /\ again.times = 0
    /\ Begin(call)

\* A caller discards what it was returned.
Discard ==
    /\ pc = "settled"
    /\ pc' = "idle"
    /\ call' = NoCall
    /\ wire' = <<>>
    /\ res' = NoResponse
    /\ data' = <<>>
    /\ settled' = Pending
    /\ outcome' = Pending
    /\ follow' = NoFollow
    /\ again' = NoRepeat
    /\ UNCHANGED <<config, supplied, held>>
    /\ UNCHANGED others

\* The response arrives: status line and headers, the body to follow in
\* chunks.  protocol.request calls the response callback, which sets
\* data = ''.
Respond ==
    /\ pc = "sent"
    /\ \E mode \in Modes :
        LET answer == AnswerIn(mode, held, wire[1])
        IN  /\ held' = answer.ids
            /\ \E chunks \in Chunkings(Utf8Encode(answer.body)) :
                 res' = [statusCode |-> answer.statusCode, chunks |-> chunks,
                         body |-> Utf8Encode(answer.body)]
    /\ pc' = "receiving"
    /\ data' = <<>>
    /\ UNCHANGED <<config, supplied, call, wire, settled, outcome, follow, again>>
    /\ UNCHANGED others

\* res 'data'
OnData ==
    /\ pc = "receiving"
    /\ res.chunks # <<>>
    /\ data' = OnDataChunk(data, Head(res.chunks))
    /\ res' = [res EXCEPT !.chunks = Tail(res.chunks)]
    /\ UNCHANGED <<config, supplied, held, pc, call, wire, settled, outcome, follow, again>>
    /\ UNCHANGED others

\* The walk after a call has settled: one more page when the call was part
\* of it and returned an envelope, no walk otherwise.
Walked(f, result) ==
    IF f.state \in {"first", "following"} /\ result.kind = "resolved"
       /\ IsEnvelope(result.value)
    THEN [state |-> IF LinkOf(result.value, "next").t = "str" THEN "page" ELSE "done",
          origin |-> f.origin,
          prev |-> f.env,
          env |-> result.value,
          acc |-> f.acc \o PageIds(result.value),
          pages |-> f.pages + 1]
    ELSE NoFollow

\* res 'end': the promise of this.request settles and the method that
\* awaits it goes on.
OnEnd ==
    /\ pc = "receiving"
    /\ res.chunks = <<>>
    /\ settled' = OnEndSettle(res.statusCode, data)
    /\ outcome' = MethodSettle(call.method, settled')
    /\ follow' = Walked(follow, outcome')
    /\ pc' = "settled"
    /\ UNCHANGED <<config, supplied, held, call, wire, res, data, again>>
    /\ UNCHANGED others

\* req 'error': no response was obtained.
NetworkErrors == {Error(<<"connect ECONNREFUSED 127.0.0.1:4030">>),
                  Error(<<"getaddrinfo ENOTFOUND example.testrail.io">>)}
OnError ==
    /\ pc = "sent"
    /\ \E e \in NetworkErrors :
        /\ settled' = OnErrorSettle(e)
        /\ outcome' = MethodSettle(call.method, settled')
    /\ follow' = NoFollow
    /\ pc' = "settled"
    /\ UNCHANGED <<config, supplied, held, call, wire, res, data, again>>
    /\ UNCHANGED others

Next == Invoke \/ FollowLink \/ Repeat \/ Discard \/ Respond \/ OnData \/ OnEnd \/ OnError

Spec == Init /\ [][Next]_vars

(* ------------------------- several calls at a time --------------------- *)

\* The calls the sites make while another call is outstanding.
ConcurrentCalls ==
    { [NoCall EXCEPT !.method = "getProject", !.id = Some(1)],
      [NoCall EXCEPT !.method = "getUsers"],
      [NoCall EXCEPT !.method = "deleteProject", !.id = Some(1)] }

\* The call whose `data` the response callback of the call of site s appends
\* to.  `let data = ''` is declared inside the callback: the call's own.
DataOwner_Shared(s) == "tree view"
DataOwner(s) == s

InitConcurrent ==
    /\ config = [baseUrl |-> <<"https:", "//", "example.testrail.io">>,
                 email |-> AdminEmail, apiKey |-> AdminKey]
    /\ supplied = config
    /\ held = {1}
    /\ NoCalls
    /\ startup = NotStarted
    /\ editor = NoEditor
    /\ script = NoScript
    /\ tree = NoTree

\* What the calls of the sites leave alone.
alone == <<config, supplied, pc, call, wire, res, data, settled, outcome, follow,
          again, startup, editor, script, tree>>

\* A site calls a method: the request is written, the promise is pending.
SiteInvoke ==
    /\ \E s \in DOMAIN sites, c \in ConcurrentCalls :
        /\ sites[s].pc = "idle"
        /\ sites' = [sites EXCEPT ![s] =
                       [NoExchange EXCEPT !.pc = "sent", !.call = c,
                                          !.wire = Transmit(config, ArgsOf(c))]]
    /\ UNCHANGED <<held, alone>>

\* The response to the request of a site begins.
SiteRespond ==
    /\ \E s \in DOMAIN sites, mode \in Modes :
        /\ sites[s].pc = "sent"
        /\ LET answer == AnswerIn(mode, held, sites[s].wire[1])
           IN  /\ held' = answer.ids
               /\ \E chunks \in Chunkings(Utf8Encode(answer.body)) :
                    sites' = [sites EXCEPT
                        ![s].pc = "receiving",
                        ![s].res = [statusCode |-> answer.statusCode,
                                    chunks |-> chunks,
                                    body |-> Utf8Encode(answer.body)],
                        ![DataOwner(s)].data = <<>>]
    /\ UNCHANGED alone

\* res 'data' of the response of a site.
SiteOnData ==
    /\ \E s \in DOMAIN sites :
        /\ sites[s].pc = "receiving"
        /\ sites[s].res.chunks # <<>>
        /\ sites' = [sites EXCEPT
              ![s].res.chunks = Tail(sites[s].res.chunks),
              ![s].got = Append(sites[s].got, Head(sites[s].res.chunks)),
              ![DataOwner(s)].data =
                  OnDataChunk(sites[DataOwner(s)].data, Head(sites[s].res.chunks))]
    /\ UNCHANGED <<held, alone>>

\* res 'end' of the response of a site.
SiteOnEnd ==
    /\ \E s \in DOMAIN sites :
        /\ sites[s].pc = "receiving"
        /\ sites[s].res.chunks = <<>>
        /\ sites' = [sites EXCEPT
              ![s].pc = "settled",
              ![s].outcome =
                  MethodSettle(sites[s].call.method,
                               OnEndSettle(sites[s].res.statusCode,
                                           sites[DataOwner(s)].data))]
    /\ UNCHANGED <<held, alone>>

\* req 'error' of the request of a site.
SiteOnError ==
    /\ \E s \in DOMAIN sites, e \in NetworkErrors :
        /\ sites[s].pc = "sent"
        /\ sites' = [sites EXCEPT
              ![s].pc = "settled",
              ![s].outcome = MethodSettle(sites[s].call.method, OnErrorSettle(e))]
    /\ UNCHANGED <<held, alone>>

NextConcurrent ==
    SiteInvoke \/ SiteRespond \/ SiteOnData \/ SiteOnEnd \/ SiteOnError

SpecConcurrent == InitConcurrent /\ [][NextConcurrent]_vars

(* ------------------------------ activation ----------------------------- *)

\* The three settings, and the values a user has given them where the
\* settings and the environment hold a value: what a source holds is, for
\* each field, nothing, the empty string or the value given.
Fields == {"baseUrl", "email", "apiKey"}
Given ==
    [settings |-> [baseUrl |-> <<"https:", "//", "example.testrail.io">>,
                   email |-> AdminEmail, apiKey |-> AdminKey],
     env      |-> [baseUrl |-> <<"http:", "//", "localhost", ":", "8080">>,
                   email |-> TesterEmail, apiKey |-> TesterKey]]
Held(source) ==
    LET Values(text) == {Undefined, String(<<>>), String(text)}
    IN  {[baseUrl |-> b, email |-> e, apiKey |-> k] :
            b \in Values(Given[source].baseUrl),
            e \in Values(Given[source].email),
            k \in Values(Given[source].apiKey)}

\* loadTestRailConfig(): null, or the configuration it returns.
Null == [null |-> TRUE]
loadTestRailConfig_EnvOnly(st) ==
    LET value(f) == Or(Or(String(<<>>), st.env[f]), String(<<>>))
    IN  IF \E f \in Fields : value(f).text = <<>> THEN Null
        ELSE [f \in Fields |-> value(f).text]
loadTestRailConfig(st) ==
    LET setting(f) == IF st.vscode THEN Or(st.settings[f], String(<<>>))
                      ELSE String(<<>>)
        value(f) == Or(Or(setting(f), st.env[f]), String(<<>>))
    IN  IF \E f \in Fields : value(f).text = <<>> THEN Null
        ELSE [f \in Fields |-> value(f).text]

validateTestRailConfig(cfg) ==
    IF cfg = Null THEN FALSE
    ELSE IF \E f \in Fields : cfg[f] = <<>> THEN FALSE
    ELSE TRUE

\* activate(): `config && validateTestRailConfig(config) ? new
\* TestRailHelper(config) : null`; the value is the config of the helper.
testrailHelper(st) ==
    LET loaded == loadTestRailConfig(st)
    IN  IF loaded # Null /\ validateTestRailConfig(loaded) THEN loaded ELSE Null

InitActivate ==
    /\ startup \in {[settings |-> s, env |-> e, vscode |-> v, activated |-> FALSE] :
                      s \in Held("settings"), e \in Held("env"), v \in BOOLEAN}
    /\ config = Null
    /\ supplied = Null
    /\ held = {}
    /\ NoCalls
    /\ editor = NoEditor
    /\ script = NoScript
    /\ tree = NoTree

Activate ==
    /\ ~startup.activated
    /\ startup' = [startup EXCEPT !.activated = TRUE]
    /\ config' = testrailHelper(startup)
    /\ supplied' = config'
    /\ UNCHANGED <<held, pc, call, wire, res, data, settled, outcome, follow, again,
                   sites, editor, script, tree>>

NextActivate == Activate

SpecActivate == InitActivate /\ [][NextActivate]_vars

(* ------------------------ the language-model tools --------------------- *)

\* The listing tools, with the member of the envelope each reads.
ListingTools ==
    [getTestRailProjects |-> "projects", getTestRailSuites |-> "suites",
     getTestRailSections |-> "sections", getTestRailCases |-> "cases",
     getTestRailGroups |-> "groups"]

\* options.input of an invocation: what the language model passes.
ToolInputs ==
    [isCompleted : {None, Some(0)}, projectId : {1}, suiteId : {None, Some(2)},
     sectionId : {None}, limit : {None, Some(1), Some(2)}, offset : {None, Some(1)}]

\* The helper call a tool makes with its input: each tool destructures the
\* fields its input type names and passes those.
ToolCall(tool, input) ==
    LET made ==
          CASE tool = "getTestRailProjects" ->
                 [NoCall EXCEPT !.method = "getProjects",
                                !.is_completed = input.isCompleted]
            [] tool = "getTestRailSuites" ->
                 [NoCall EXCEPT !.method = "getSuites", !.id = Some(input.projectId)]
            [] tool = "getTestRailSections" ->
                 [NoCall EXCEPT !.method = "getSections", !.id = Some(input.projectId),
                                !.suite_id = input.suiteId]
            [] tool = "getTestRailCases" ->
                 [NoCall EXCEPT !.method = "getCases", !.id = Some(input.projectId),
                                !.suite_id = input.suiteId,
                                !.section_id = input.sectionId,
                                !.limit = input.limit, !.offset = input.offset]
            [] OTHER -> [NoCall EXCEPT !.method = "getGroups"]
    IN  [made EXCEPT !.tool = tool,
                     !.input = [limit |-> input.limit, offset |-> input.offset]]

\* format<Entities>Summary(list)
RECURSIVE SummaryLines(_, _, _)
SummaryLines(tool, list, i) ==
    IF i > Len(list) THEN <<>>
    ELSE LET item == list[i]
             text(v) == IF v.t = "str" THEN v.s
                        ELSE IF v.t = "num" THEN <<NumberToString(v.n)>>
                        ELSE <<"undefined">>
             line == IF tool = "getTestRailCases"
                     THEN <<"- C">> \o text(Get(item, "id")) \o <<": ">>
                          \o text(Get(item, "title"))
                     ELSE <<"- ">> \o text(Get(item, "name")) \o <<" (ID: ">>
                          \o text(Get(item, "id")) \o <<")">>
         IN  (IF i > 1 THEN <<"\n">> ELSE <<>>) \o line
             \o SummaryLines(tool, list, i + 1)

\* The data a tool hands to createSuccessResult, or the text of
\* handleToolError, for the promise the helper method settled.
ToolResult(tool, result) ==
    LET plural == ListingTools[tool]
        context == <<"Failed to get ", plural>>
                   \o (IF tool \in {"getTestRailProjects", "getTestRailGroups"}
                       THEN <<>> ELSE <<" for project ", "1">>)
        failed(message) ==
            [ok |-> FALSE, data |-> JUndefined, text |-> <<"Error: ">> \o message]
    IN  IF result.kind = "rejected"
        THEN failed((IF result.error.message = <<"TestRail is not configured">>
                     THEN <<>> ELSE context \o <<": ">>)
                    \o result.error.message)
        ELSE IF result.value.t = "null"
        THEN failed(context \o <<": ", "Cannot read properties of null">>)
        ELSE LET found == Get(result.value, plural)
                 list == IF TruthyValue(found) THEN found ELSE JArr(<<>>)
                 count == IF list.t = "arr" THEN JNum(Len(list.a))
                          ELSE IF list.t = "str" THEN JNum(Len(list.s))
                          ELSE JUndefined
                 summary == IF list.t = "arr" /\ list.a # <<>>
                            THEN SummaryLines(tool, list.a, 1)
                            ELSE <<"No ", plural, " found">>
                 shown == JObj(<<Member(plural, list), Member("count", count),
                                 Member("summary", JStr(summary))>>)
             IN  [ok |-> TRUE, data |-> shown, text |-> Stringify(shown)]

InitTools ==
    /\ config \in Configs \cup {Null}
    /\ supplied = config
    /\ held \in {1..n : n \in 0..MaxItems}
    /\ NoCalls
    /\ startup = NotStarted
    /\ editor = NoEditor
    /\ script = NoScript
    /\ tree = NoTree

\* The language model invokes a listing tool: without a helper the tool
\* answers at once, with one it calls the helper.
InvokeTool ==
    /\ pc = "idle"
    /\ \E tool \in DOMAIN ListingTools, input \in ToolInputs :
         IF config = Null
         THEN /\ pc' = "settled"
              /\ call' = [NoCall EXCEPT !.tool = tool,
                                        !.input = [limit |-> input.limit,
                                                   offset |-> input.offset]]
              /\ outcome' = Rejected(Error(<<"TestRail is not configured">>))
              /\ UNCHANGED <<config, supplied, held, wire, res, data, settled,
                             follow, again>>
              /\ UNCHANGED others
         ELSE Begin(ToolCall(tool, input))

NextTools == InvokeTool \/ Respond \/ OnData \/ OnEnd \/ OnError

SpecTools == InitTools /\ [][NextTools]_vars

(* --------------------------- the preview panels ------------------------ *)

\* The documents of the workspace, by file name (the uri of a document is
\* taken to be its file name).
Documents ==
    {<<"a", ".testrail.yaml">>, <<"b", ".testrail.yaml">>,
     <<"c", ".testrail.yaml">>, <<"notes", ".txt">>}

\* fileName.endsWith(suffix)
EndsWith(fileName, suffix) ==
    /\ Len(fileName) >= Len(suffix)
    /\ SubSeq(fileName, Len(fileName) - Len(suffix) + 1, Len(fileName)) = suffix

IsTestRailYaml(fileName) == EndsWith(fileName, <<".testrail.yaml">>)

\* previewPanels.get(uri): the panels registered for the uri (none or one)
PanelsOf(ed, uri) == {e.panel : e \in {x \in ed.previewPanels : x.uri = uri}}

\* panel.dispose(): the panel is gone, and its onDidDispose listener deletes
\* the entry of the document the panel was created for.  A panel already
\* disposed fires nothing.
Dispose(ed, panel) ==
    IF panel \notin ed.panels THEN ed
    ELSE [ed EXCEPT !.panels = @ \ {panel},
                    !.disposed = @ \cup {panel},
                    !.previewPanels = {e \in @ : e.uri # panel.documentUri}]

\* panel.dispose(); previewPanels.delete(uri)
DisposeAndDelete(ed, uri, panel) ==
    LET after == Dispose(ed, panel)
    IN  [after EXCEPT !.previewPanels = {e \in @ : e.uri # uri}]

RECURSIVE DisposeAll(_, _)
DisposeAll(ed, entries) ==
    IF entries = {} THEN ed
    ELSE LET e == CHOOSE x \in entries : TRUE
         IN  DisposeAll(DisposeAndDelete(ed, e.uri, e.panel), entries \ {e})

OtherPreviews_None(ed, documentUri) == {}

\* The entries showPreview closes: those of every other document.
OtherPreviews(ed, documentUri) == {e \in ed.previewPanels : e.uri # documentUri}

\* vscode.window.createWebviewPanel(...): a panel that is none of the open
\* ones, remembering the document it was created for.
CreateWebviewPanel(ed, documentUri) ==
    [id |-> CHOOSE i \in 1..(Cardinality(ed.panels) + 1) :
                \A p \in ed.panels : p.id # i,
     documentUri |-> documentUri]

\* showPreview()
showPreview(ed) ==
    IF ed.active = <<>> \/ ~IsTestRailYaml(ed.active) THEN ed
    ELSE LET documentUri == ed.active
             closed == DisposeAll(ed, OtherPreviews(ed, documentUri))
         IN  IF PanelsOf(closed, documentUri) # {}
             THEN closed
             ELSE LET panel == CreateWebviewPanel(closed, documentUri)
                  IN  [closed EXCEPT !.panels = @ \cup {panel},
                                     !.previewPanels =
                                        @ \cup {[uri |-> documentUri, panel |-> panel]}]

\* An event of the editor begins: nothing disposed by it yet.
Event(ed) == [ed EXCEPT !.disposed = {}]

InitPreview ==
    /\ config = [baseUrl |-> <<"https:", "//", "example.testrail.io">>,
                 email |-> AdminEmail, apiKey |-> AdminKey]
    /\ supplied = config
    /\ held = {1}
    /\ NoCalls
    /\ startup = NotStarted
    /\ editor = NoEditor
    /\ script = NoScript
    /\ tree = NoTree

\* The user opens a document.
OpenDocument ==
    /\ \E d \in Documents \ editor.opened :
         editor' = [Event(editor) EXCEPT !.opened = @ \cup {d}]
    /\ UNCHANGED <<helper, sites, startup, script, tree>>

\* onDidChangeActiveTextEditor(editor): another editor, or none, is active.
ChangeActiveEditor ==
    /\ \E e \in (editor.opened \cup {<<>>}) \ {editor.active} :
         editor' = showPreview([Event(editor) EXCEPT !.active = e])
    /\ UNCHANGED <<helper, sites, startup, script, tree>>

\* The command testrail.showPreview.
ShowPreviewCommand ==
    /\ editor' = showPreview(Event(editor))
    /\ UNCHANGED <<helper, sites, startup, script, tree>>

\* The command testrail.togglePreview.
TogglePreview ==
    /\ LET ed == Event(editor)
           documentUri == ed.active
       IN  editor' =
             IF ed.active # <<>> /\ IsTestRailYaml(ed.active)
             THEN IF PanelsOf(ed, documentUri) # {}
                  THEN DisposeAndDelete(ed, documentUri,
                                        CHOOSE p \in PanelsOf(ed, documentUri) : TRUE)
                  ELSE showPreview(ed)
             ELSE ed
    /\ UNCHANGED <<helper, sites, startup, script, tree>>

\* onDidCloseTextDocument(document): a document that no editor shows closes.
CloseDocument ==
    /\ \E d \in editor.opened \ {editor.active} :
         LET ed == [Event(editor) EXCEPT !.opened = @ \ {d}]
         IN  editor' =
               IF IsTestRailYaml(d) /\ PanelsOf(ed, d) # {}
               THEN DisposeAndDelete(ed, d, CHOOSE p \in PanelsOf(ed, d) : TRUE)
               ELSE ed
    /\ UNCHANGED <<helper, sites, startup, script, tree>>

\* The user closes a preview panel.
DisposePanel ==
    /\ \E p \in editor.panels : editor' = Dispose(Event(editor), p)
    /\ UNCHANGED <<helper, sites, startup, script, tree>>

NextPreview ==
    \/ OpenDocument
    \/ ChangeActiveEditor
    \/ ShowPreviewCommand
    \/ TogglePreview
    \/ CloseDocument
    \/ DisposePanel

SpecPreview == InitPreview /\ [][NextPreview]_vars

(* --------------------------- saving to TestRail ------------------------ *)

\* yaml.dump(data): one line `key: value` for each member; a member whose
\* value is undefined is left out, an empty string is written ''. An array
\* of objects is written as a block, `key:` and then the members of each
\* item, the first after `  - ` and the others after four blanks; an empty
\* array is written [].
DumpScalar(v) ==
    CASE v.t = "num" -> <<NumberToString(v.n)>>
      [] v.t = "null" -> <<"null">>
      [] v.t = "str" /\ v.s = <<>> -> <<"''">>
      [] OTHER -> v.s

DumpItems(items) ==
    Flatten([n \in 1..Len(items) |->
        Flatten([m \in 1..Len(items[n].o) |->
            <<IF m = 1 THEN "  - " ELSE "    ", items[n].o[m].k, ": ">>
            \o DumpScalar(items[n].o[m].v) \o <<"\n">>])])

RECURSIVE DumpMembers(_, _)
DumpMembers(members, i) ==
    IF i > Len(members) THEN <<>>
    ELSE LET v == members[i].v
         IN  (IF v.t = "undefined" THEN <<>>
              ELSE IF v.t = "arr" /\ v.a = <<>> THEN <<members[i].k, ": ", "[]", "\n">>
              ELSE IF v.t = "arr" THEN <<members[i].k, ":", "\n">> \o DumpItems(v.a)
              ELSE <<members[i].k, ": ">> \o DumpScalar(v) \o <<"\n">>)
             \o DumpMembers(members, i + 1)

Dump(value) == DumpMembers(value.o, 1)

\* yaml.load(text): the object of the lines of the text; a value that reads
\* as a number is a number, and the lines of a block are the items of an
\* array.
Load(text) ==
    LET ends == Ascending({i \in 1..Len(text) : text[i] = "\n"})
        line(k) == SubSeq(text, IF k = 1 THEN 1 ELSE ends[k - 1] + 1, ends[k] - 1)
        scalar(atoms) ==
            IF Len(atoms) = 1 /\ atoms[1] \in NumberAtoms
            THEN JNum(ParseNumber(atoms[1]))
            ELSE IF atoms = <<"null">> \/ atoms = <<>> THEN JNull
            ELSE IF atoms = <<"''">> THEN JStr(<<>>)
            ELSE JStr(atoms)
        inner(k) == line(k)[1] \in {"  - ", "    "}
        tops == Ascending({k \in 1..Len(ends) : ~inner(k)})
        until(n) == IF n < Len(tops) THEN tops[n + 1] - 1 ELSE Len(ends)
        item(from, to) ==
            JObj([m \in 1..(to - from + 1) |->
                    Member(line(from + m - 1)[2],
                           scalar(SubSeq(line(from + m - 1), 4, Len(line(from + m - 1)))))])
        items(n) ==
            LET starts == Ascending({k \in (tops[n] + 1)..until(n) : line(k)[1] = "  - "})
            IN  JArr([q \in 1..Len(starts) |->
                        item(starts[q],
                             IF q < Len(starts) THEN starts[q + 1] - 1 ELSE until(n))])
        value(n) ==
            LET l == line(tops[n])
            IN  IF Len(l) = 2 /\ l[2] = ":" THEN items(n)
                ELSE IF SubSeq(l, 3, Len(l)) = <<"[]">> THEN JArr(<<>>)
                ELSE scalar(SubSeq(l, 3, Len(l)))
    IN  JObj([n \in 1..Len(tops) |-> Member(line(tops[n])[1], value(n))])

\* { ...a, ...b }
Spread(a, b) ==
    LET has(o, key) == \E i \in 1..Len(o) : o[i].k = key
        kept == [i \in 1..Len(a.o) |->
                   IF has(b.o, a.o[i].k) THEN Member(a.o[i].k, Get(b, a.o[i].k))
                   ELSE a.o[i]]
        added(m) == ~has(a.o, m.k)
    IN  JObj(kept \o SelectSeq(b.o, added))

\* The documents of the editor: a new case and a new section as the
\* templates of yamlConverters write them, a project, the case the service
\* holds, and a document that names no entity type.
SaveDocuments ==
    LET file(name) == <<name, ".testrail.yaml">>
        type(t) == Member("entityType", JStr(<<t>>))
        empty(key) == Member(key, JStr(<<>>))
    IN  (file("case-new") :>
            Dump(JObj(<<type("case"), empty("title"), Member("section_id", JNum(1)),
                        Member("custom_automatable", JNum(1))>>)))
     @@ (file("section-new") :>
            Dump(JObj(<<type("section"), empty("name"), empty("description"),
                        Member("suite_id", JNum(1))>>)))
     @@ (file("project-new") :>
            Dump(JObj(<<type("project"), Member("name", JStr(<<"Caf", EAcute>>)),
                        Member("suite_mode", JNum(1))>>)))
     @@ (file("case-1") :>
            Dump(JObj(<<type("case"), Member("id", JNum(1)),
                        Member("title", JStr(<<"Caf", EAcute>>)),
                        Member("section_id", JNum(1))>>)))
     @@ (file("untyped") :>
            Dump(JObj(<<Member("title", JStr(<<"Caf", EAcute>>))>>)))

\* config.get('customFieldDefaults', { custom_automatable: 1 })
customFieldDefaults == JObj(<<Member("custom_automatable", JNum(1))>>)

\* The call saveToTestRail makes first for the data of a document, or no
\* call when it throws before it makes one.
SaveCall(document, yaml) ==
    LET entityType == Get(yaml, "entityType")
        id == Get(yaml, "id")
        for == [NoCall EXCEPT !.document = document, !.yaml = yaml, !.data = yaml]
        update(method) == [for EXCEPT !.method = method, !.id = Some(id.n)]
        add(method, parent) ==
            IF ~TruthyValue(Get(yaml, parent)) THEN NoCall
            ELSE [for EXCEPT !.method = method, !.id = Some(Get(yaml, parent).n)]
    IN  IF ~TruthyValue(entityType) THEN NoCall
        ELSE CASE entityType.s = <<"case">> ->
                    IF TruthyValue(id) THEN update("updateCase")
                    ELSE LET caseData == Spread(customFieldDefaults, yaml)
                             sent == JObj(SelectSeq(caseData.o,
                                            LAMBDA m : m.k # "entityType"))
                         IN  IF add("addCase", "section_id") = NoCall THEN NoCall
                             ELSE [add("addCase", "section_id") EXCEPT !.data = sent]
               [] entityType.s = <<"section">> ->
                    IF TruthyValue(id) THEN update("updateSection")
                    ELSE add("getSuite", "suite_id")
               [] entityType.s = <<"suite">> ->
                    IF TruthyValue(id) THEN update("updateSuite")
                    ELSE add("addSuite", "project_id")
               [] entityType.s = <<"project">> ->
                    IF TruthyValue(id) THEN update("updateProject")
                    ELSE [for EXCEPT !.method = "addProject"]
               [] OTHER -> NoCall

Created_NoId(yaml, entity) == yaml

\* { ...data, id: newCase.id }
Created(yaml, entity) == Spread(yaml, JObj(<<Member("id", Get(entity, "id"))>>))

InitSave ==
    /\ config = [baseUrl |-> <<"https:", "//", "example.testrail.io">>,
                 email |-> AdminEmail, apiKey |-> AdminKey]
    /\ supplied = config
    /\ held = {1}
    /\ NoCalls
    /\ startup = NotStarted
    /\ script = NoScript
    /\ tree = NoTree
    /\ editor = [NoEditor EXCEPT !.opened = DOMAIN SaveDocuments,
                                 !.text = SaveDocuments]

\* Between two saves the user goes to another document.
SwitchDocument ==
    /\ pc = "idle"
    /\ ChangeActiveEditor

\* saveToTestRail(document) is entered, by the command for the document of
\* the active editor or by the save button of its preview, no save being
\* under way: it loads the document and calls the helper, or shows an error.
Save ==
    /\ pc = "idle"
    /\ editor.active # <<>> /\ IsTestRailYaml(editor.active)
    /\ LET c == SaveCall(editor.active, Load(editor.text[editor.active]))
       IN  IF c = NoCall
           THEN /\ editor' = [editor EXCEPT !.message = "error"]
                /\ UNCHANGED <<helper, sites, startup, script, tree>>
           ELSE Begin(c)

\* getProjectIdForSuite has returned: saveToTestRail adds the section.
SaveSection ==
    /\ pc = "settled"
    /\ call.document # <<>>
    /\ call.method = "getSuite"
    /\ outcome.kind = "resolved" /\ outcome.value.t \notin {"null", "undefined"}
    /\ LET projectId == Get(outcome.value, "project_id")
       IN  Begin([call EXCEPT !.method = "addSection",
                              !.id = IF projectId.t = "num" THEN Some(projectId.n)
                                     ELSE None])

\* The helper's promise has settled: saveToTestRail writes the id of a new
\* entity into the document and shows what it has done, or the error.
SaveSettle ==
    /\ pc = "settled"
    /\ call.document # <<>>
    /\ ~(/\ call.method = "getSuite" /\ outcome.kind = "resolved"
         /\ outcome.value.t \notin {"null", "undefined"})
    /\ editor' =
         IF outcome.kind = "rejected" \/ call.method = "getSuite"
         THEN [editor EXCEPT !.message = "error"]
         ELSE IF call.method \in UpdateMethods
         THEN [editor EXCEPT !.message = "updated"]
         ELSE IF outcome.value.t \in {"null", "undefined"}
         THEN [editor EXCEPT !.message = "error"]
         ELSE [editor EXCEPT !.message = "created",
                             !.text[call.document] =
                                Dump(Created(call.yaml, outcome.value))]
    /\ pc' = "idle"
    /\ call' = NoCall
    /\ wire' = <<>>
    /\ res' = NoResponse
    /\ data' = <<>>
    /\ settled' = Pending
    /\ outcome' = Pending
    /\ UNCHANGED <<config, supplied, held, follow, again, sites, startup, script, tree>>

NextSave ==
    \/ SwitchDocument
    \/ Save
    \/ SaveSection
    \/ SaveSettle
    \/ Respond
    \/ OnData
    \/ OnEnd
    \/ OnError

SpecSave == InitSave /\ [][NextSave]_vars

(* -------------------------- deleting from TestRail --------------------- *)

\* The documents of the editor when the user deletes: two cases and a
\* section the service holds, a case not yet created, and an entity of a
\* type the extension does not know.
DeleteDocuments ==
    LET file(name) == <<name, ".testrail.yaml">>
        of(t, id) == <<Member("entityType", JStr(<<t>>)), Member("id", JNum(id)),
                       Member("title", JStr(<<"Caf", EAcute>>))>>
    IN  (file("case-1") :> Dump(JObj(of("case", 1))))
     @@ (file("section-2") :> Dump(JObj(of("section", 2))))
     @@ (file("plan-1") :> Dump(JObj(of("plan", 1))))
     @@ (file("case-new") :> SaveDocuments[file("case-new")])

\* What showWarningMessage(..., { modal: true }, 'Delete') resolves with: the
\* button, or undefined when the dialog is dismissed.
Choices == {"Delete", "undefined"}

Proceeds_Always(choice) == TRUE

\* if (deleteConfirm === 'Delete') / if (confirmation !== 'Delete') return
Proceeds(choice) == choice = "Delete"

\* The call deleteFromTestRail makes for the data of a document, or no call
\* when the entity has no id or its type is unknown.
DeleteCall(document, yaml) ==
    LET entityType == Get(yaml, "entityType")
        id == Get(yaml, "id")
        method == CASE entityType = JStr(<<"case">>)    -> "deleteCase"
                    [] entityType = JStr(<<"section">>) -> "deleteSection"
                    [] entityType = JStr(<<"suite">>)   -> "deleteSuite"
                    [] entityType = JStr(<<"project">>) -> "deleteProject"
                    [] OTHER                            -> "none"
    IN  IF ~TruthyValue(id) \/ method = "none" THEN NoCall
        ELSE [NoCall EXCEPT !.method = method, !.id = Some(id.n),
                            !.document = document, !.yaml = yaml]

InitDelete ==
    /\ config \in {[baseUrl |-> <<"https:", "//", "example.testrail.io">>,
                    email |-> AdminEmail, apiKey |-> AdminKey], Null}
    /\ supplied = config
    /\ held = {1, 2}
    /\ NoCalls
    /\ startup = NotStarted
    /\ script = NoScript
    /\ tree = NoTree
    /\ editor = [NoEditor EXCEPT !.opened = DOMAIN DeleteDocuments,
                                 !.text = DeleteDocuments]

\* No dialog is open and no delete is under way.
Quiet == pc = "idle" /\ editor.dialog.state \in {"none", "done"}

\* The user goes to another document.
SelectDocument ==
    /\ Quiet
    /\ ChangeActiveEditor

\* The preview of a document posts the message 'delete': the handler asks.
DeleteMessage ==
    /\ Quiet
    /\ \E p \in editor.panels :
         editor' = [editor EXCEPT !.dialog = [state |-> "open", choice |-> "none",
                                              from |-> "preview",
                                              document |-> p.documentUri, item |-> 0]]
    /\ UNCHANGED <<helper, sites, startup, script, tree>>

\* The command testrail.deleteCase for a case of the tree: without a helper
\* it shows an error, with one it asks.
DeleteCaseCommand ==
    /\ Quiet
    /\ \E itemId \in 1..MaxItems :
         editor' =
           IF config = Null THEN [editor EXCEPT !.message = "error"]
           ELSE [editor EXCEPT !.dialog = [state |-> "open", choice |-> "none",
                                           from |-> "tree", document |-> <<>>,
                                           item |-> itemId]]
    /\ UNCHANGED <<helper, sites, startup, script, tree>>

\* The user answers the dialog.
AnswerDialog ==
    /\ editor.dialog.state = "open"
    /\ \E choice \in Choices :
         editor' = [editor EXCEPT !.dialog.state = "answered",
                                  !.dialog.choice = choice]
    /\ UNCHANGED <<helper, sites, startup, script, tree>>

\* The handler goes on after the dialog: it returns, shows an error, or
\* calls the delete method.
AfterDialog ==
    /\ editor.dialog.state = "answered"
    /\ pc = "idle"
    /\ LET d == editor.dialog
           c == IF d.from = "tree"
                THEN [NoCall EXCEPT !.method = "deleteCase", !.id = Some(d.item)]
                ELSE DeleteCall(d.document, Load(editor.text[d.document]))
       IN  IF ~Proceeds(d.choice)
           THEN /\ editor' = [editor EXCEPT !.dialog.state = "done"]
                /\ UNCHANGED <<helper, sites, startup, script, tree>>
           ELSE IF config = Null \/ c = NoCall
           THEN /\ editor' = [editor EXCEPT !.dialog.state = "done",
                                            !.message = "error"]
                /\ UNCHANGED <<helper, sites, startup, script, tree>>
           ELSE Begin(c)

\* The delete has settled: the handler shows what it has done; after a
\* delete from the preview it closes the panel and the document.
DeleteSettle ==
    /\ pc = "settled"
    /\ editor.dialog.state = "answered"
    /\ LET d == editor.dialog
           shown == [editor EXCEPT !.dialog.state = "done",
                                   !.message = IF outcome.kind = "resolved"
                                               THEN "deleted" ELSE "error"]
           closed == [shown EXCEPT !.opened = @ \ {d.document},
                                   !.active = IF @ = d.document THEN <<>> ELSE @]
       IN  editor' =
             IF outcome.kind = "rejected" \/ d.from = "tree" THEN shown
             ELSE IF PanelsOf(closed, d.document) = {} THEN closed
             ELSE DisposeAndDelete(closed, d.document,
                                   CHOOSE p \in PanelsOf(closed, d.document) : TRUE)
    /\ pc' = "idle"
    /\ call' = NoCall
    /\ wire' = <<>>
    /\ res' = NoResponse
    /\ data' = <<>>
    /\ settled' = Pending
    /\ outcome' = Pending
    /\ UNCHANGED <<config, supplied, held, follow, again, sites, startup, script, tree>>

NextDelete ==
    \/ SelectDocument
    \/ DeleteMessage
    \/ DeleteCaseCommand
    \/ AnswerDialog
    \/ AfterDialog
    \/ DeleteSettle
    \/ Respond
    \/ OnData
    \/ OnEnd
    \/ OnError

SpecDelete == InitDelete /\ [][NextDelete]_vars

(* ------------------------- opening YAML documents ---------------------- *)

\* caseToYaml(testCase), projectToYaml(project): the members the converter
\* names, each as the entity holds it.
EntityToYaml(entityType, entity) ==
    LET named(key) == Member(key, Get(entity, key))
    IN  Dump(JObj(<<Member("entityType", JStr(<<entityType>>)), named("id")>>
                  \o (IF entityType = "case"
                      THEN <<named("title"), named("section_id")>>
                      ELSE <<named("name"), named("announcement")>>)))

\* newCaseToYaml(sectionId), newProjectToYaml()
DraftToYaml(entityType, parent) ==
    IF entityType = "case"
    THEN Dump(Spread(JObj(<<Member("entityType", JStr(<<"case">>)),
                            Member("title", JStr(<<>>)),
                            Member("section_id", JNum(parent))>>),
                     customFieldDefaults))
    ELSE Dump(JObj(<<Member("entityType", JStr(<<"project">>)),
                     Member("name", JStr(<<>>)),
                     Member("announcement", JStr(<<>>)),
                     Member("suite_mode", JNum(1))>>))

\* The file name openYamlDocument derives from the content.
FileName(content) ==
    LET yaml == Load(content)
        text(v) == IF v.t = "num" THEN <<NumberToString(v.n)>> ELSE v.s
        entityType == IF TruthyValue(Get(yaml, "entityType"))
                      THEN text(Get(yaml, "entityType")) ELSE <<"unknown">>
        entityId == IF TruthyValue(Get(yaml, "id"))
                    THEN text(Get(yaml, "id")) ELSE <<"new">>
    IN  <<".testrail/">> \o entityType \o <<"-">> \o entityId \o <<".testrail.yaml">>

\* openYamlDocument(content) for an entity or a draft the user opens: the
\* content is written to the file of that name; `written` keeps, for what
\* was opened, the file and the content it was given.
openYamlDocument(ed, what, content) ==
    LET filePath == FileName(content)
        put(f, key, value) ==
            [k \in DOMAIN f \cup {key} |-> IF k = key THEN value ELSE f[k]]
    IN  [ed EXCEPT !.files = put(@, filePath, content),
                   !.written = put(@, what, [file |-> filePath, content |-> content])]

\* What the user opens: a case or a project of the tree, by id, and a draft
\* of a new case in a section.
Draft(entityType, parent) == [entityType |-> entityType, id |-> 0, parent |-> parent]
Opened(entityType, id) == [entityType |-> entityType, id |-> id, parent |-> 0]

InitOpen ==
    /\ config = [baseUrl |-> <<"https:", "//", "example.testrail.io">>,
                 email |-> AdminEmail, apiKey |-> AdminKey]
    /\ supplied = config
    /\ held = {1}
    /\ NoCalls
    /\ startup = NotStarted
    /\ editor = NoEditor
    /\ script = NoScript
    /\ tree = NoTree

\* testrail.createCaseYaml for a section of the tree
CreateDraft ==
    /\ pc = "idle"
    /\ \E what \in {Draft("case", 1), Draft("case", 2)} :
         editor' = openYamlDocument(editor, what,
                                    DraftToYaml(what.entityType, what.parent))
    /\ UNCHANGED <<helper, sites, startup, script, tree>>

\* testrail.openCaseYaml, testrail.openProjectYaml: the entity is fetched.
OpenEntity ==
    /\ pc = "idle"
    /\ \E m \in {"getCase", "getProject"} :
         Begin([NoCall EXCEPT !.method = m, !.id = Some(1)])

\* The fetch has settled: the entity is converted and opened, or the error
\* is shown.
OpenSettle ==
    /\ pc = "settled"
    /\ LET entityType == IF call.method = "getCase" THEN "case" ELSE "project"
       IN  editor' =
             IF outcome.kind = "rejected" \/ outcome.value.t \in {"null", "undefined"}
             THEN [editor EXCEPT !.message = "error"]
             ELSE openYamlDocument(editor,
                                   Opened(entityType, ValueOf(call.id)),
                                   EntityToYaml(entityType, outcome.value))
    /\ pc' = "idle"
    /\ call' = NoCall
    /\ wire' = <<>>
    /\ res' = NoResponse
    /\ data' = <<>>
    /\ settled' = Pending
    /\ outcome' = Pending
    /\ UNCHANGED <<config, supplied, held, follow, again, sites, startup, script, tree>>

NextOpen ==
    \/ CreateDraft
    \/ OpenEntity
    \/ OpenSettle
    \/ Respond
    \/ OnData
    \/ OnEnd
    \/ OnError

SpecOpen == InitOpen /\ [][NextOpen]_vars

(* ------------------------ tests/cleanupAllData.ts ---------------------- *)

\* A name is a sequence of words and blanks. A pattern /^...$/i matches a
\* name that has the pattern's words, whatever their case.
Fold(word) ==
    CASE word = "Sample" -> "sample" [] word = "SAMPLE" -> "sample"
      [] word = "Project" -> "project" [] word = "PROJECT" -> "project"
      [] word = "Lead" -> "lead" [] word = "LEAD" -> "lead"
      [] word = "Tester" -> "tester" [] word = "Designer" -> "designer"
      [] word = "Administrator" -> "administrator"
      [] OTHER -> word

Test(pattern, name) ==
    /\ Len(name) = Len(pattern)
    /\ \A i \in 1..Len(pattern) : Fold(name[i]) = Fold(pattern[i])

PROTECTED_PROJECT_PATTERNS == {<<"Sample", " ", "Project">>}

PROTECTED_GROUP_PATTERNS ==
    {<<"Lead">>, <<"Tester">>, <<"Designer">>, <<"Administrator">>}

isProtectedProject_None(name) == FALSE

isProtectedProject(name) == \E pattern \in PROTECTED_PROJECT_PATTERNS : Test(pattern, name)

isProtectedGroup(name) == \E pattern \in PROTECTED_GROUP_PATTERNS : Test(pattern, name)

\* What the service holds when the script runs: two projects, each with a
\* suite, a section in it and two cases in the section, and two groups. The
\* id of an entity begins with the id of its project.
ProjectNames ==
    {<<"Sample", " ", "Project">>, <<"SAMPLE", " ", "PROJECT">>,
     <<"Sample", " ", "Project", " ", "2">>, <<"Demo">>}

GroupNames == {<<"Lead">>, <<"tester">>, <<"Lead", " ", "QA">>}

SuitesOf(project) == <<10 * project + 1>>

SectionsOf(suite) == <<10 * suite + 1>>

CasesOf(section) == <<10 * section + 1, 10 * section + 2>>

\* The command lines the script is run with.
CommandLines == {<<>>, <<"--confirm">>, <<"-y">>, <<"--dry-run">>}

\* A listing is answered with its list, with an object without the list, or
\* the call is rejected; a delete call is resolved or rejected.
Listings == {"list", "absent", "rejected"}

Answered(listing, list) == IF listing = "list" THEN list ELSE <<>>

Zero == [found |-> 0, deleted |-> 0, protected |-> 0]

Step(op, project, suite, id) == [op |-> op, project |-> project, suite |-> suite, id |-> id]

Steps(op, project, suite, ids) == [i \in 1..Len(ids) |-> Step(op, project, suite, ids[i])]

\* if (dryRun) { console.log(...) } else { await helper.<method>(id) ... }
Issue_Always(s, method, id) == [s EXCEPT !.calls = @ \cup {<<method, id>>}]

Issue(s, method, id) ==
    IF s.dryRun THEN [s EXCEPT !.would = @ \cup {<<method, id>>}]
    ELSE [s EXCEPT !.calls = @ \cup {<<method, id>>}]

\* The steps that are left when helper.deleteCase has thrown in the loop
\* over the cases: the catch around getCases ends the loop.
AfterThrow(steps) ==
    LET rest == {i \in 1..Len(steps) : steps[i].op # "case"}
        first == CHOOSE i \in rest : \A j \in rest : i <= j
    IN  IF rest = {} THEN <<>> ELSE SubSeq(steps, first, Len(steps))

InitCleanup ==
    /\ config = Null
    /\ supplied = Null
    /\ held = {}
    /\ NoCalls
    /\ startup = NotStarted
    /\ editor = NoEditor
    /\ tree = NoTree
    /\ \E args \in CommandLines, first \in ProjectNames,
          second \in {<<"Demo">>, <<"SAMPLE", " ", "PROJECT">>},
          lead \in GroupNames, other \in {<<"tester">>, <<"QA">>} :
          script = [pc |-> "start", args |-> args, dryRun |-> FALSE,
                    names |-> <<first, second>>, groups |-> <<lead, other>>,
                    steps |-> <<>>, calls |-> {}, would |-> {},
                    stats |-> [projects |-> Zero, suites |-> Zero, sections |-> Zero,
                               cases |-> Zero, groups |-> Zero]]

\* The script changes the script only.
Scripted == UNCHANGED <<helper, sites, startup, editor, tree>>

Current == script.steps[1]

Running(op) ==
    /\ script.pc = "running"
    /\ script.steps # <<>>
    /\ Current.op = op

\* cleanupAllData(!confirmDelete)
Main ==
    /\ script.pc = "start"
    /\ LET confirmDelete == \E i \in 1..Len(script.args) :
                                script.args[i] \in {"--confirm", "-y"}
       IN  script' = [script EXCEPT !.pc = "running", !.dryRun = ~confirmDelete,
                                    !.steps = <<Step("getProjects", 0, 0, 0)>>]
    /\ Scripted

\* helper.getProjects(): when it is rejected the script ends with exit code 1.
GetProjects ==
    /\ Running("getProjects")
    /\ \E listing \in Listings :
          LET projects == Answered(listing, <<1, 2>>)
          IN  script' =
                  IF listing = "rejected"
                  THEN [script EXCEPT !.pc = "failed", !.steps = <<>>]
                  ELSE [script EXCEPT !.stats.projects.found = Len(projects),
                                      !.steps = Steps("project", 0, 0, projects)
                                                \o <<Step("getGroups", 0, 0, 0)>>]
    /\ Scripted

\* for (const project of projects): a protected project is passed over, of
\* another one the suites are listed and then the project is deleted.
VisitProject ==
    /\ Running("project")
    /\ LET project == Current.id
           after == <<Step("deleteProject", project, 0, project)>> \o Tail(script.steps)
       IN  IF isProtectedProject(script.names[project])
           THEN script' = [script EXCEPT !.stats.projects.protected = @ + 1,
                                         !.steps = Tail(script.steps)]
           ELSE \E listing \in Listings :
                   LET suites == Answered(listing, SuitesOf(project))
                   IN  script' = [script EXCEPT
                                      !.stats.suites.found = @ + Len(suites),
                                      !.steps = Steps("suite", project, 0, suites) \o after]
    /\ Scripted

\* for (const suite of suites)
VisitSuite ==
    /\ Running("suite")
    /\ LET suite == Current.id
           after == <<Step("deleteSuite", Current.project, suite, suite)>>
                    \o Tail(script.steps)
       IN  \E listing \in Listings :
               LET sections == Answered(listing, SectionsOf(suite))
               IN  script' = [script EXCEPT
                                  !.stats.sections.found = @ + Len(sections),
                                  !.steps = Steps("section", Current.project, suite, sections)
                                            \o after]
    /\ Scripted

\* for (const section of sections)
VisitSection ==
    /\ Running("section")
    /\ LET section == Current.id
           after == <<Step("deleteSection", Current.project, Current.suite, section)>>
                    \o Tail(script.steps)
       IN  \E listing \in Listings :
               LET cases == Answered(listing, CasesOf(section))
               IN  script' = [script EXCEPT
                                  !.stats.cases.found = @ + Len(cases),
                                  !.steps = Steps("case", Current.project, Current.suite, cases)
                                            \o after]
    /\ Scripted

\* for (const testCase of cases): deleteCase is awaited inside the try
\* around getCases.
VisitCase ==
    /\ Running("case")
    /\ \E resolved \in (IF script.dryRun THEN {TRUE} ELSE BOOLEAN) :
          LET issued == Issue(script, "deleteCase", Current.id)
          IN  script' =
                  IF script.dryRun THEN [issued EXCEPT !.steps = Tail(script.steps)]
                  ELSE IF resolved
                  THEN [issued EXCEPT !.stats.cases.deleted = @ + 1,
                                      !.steps = Tail(script.steps)]
                  ELSE [issued EXCEPT !.steps = AfterThrow(script.steps)]
    /\ Scripted

\* The delete of a section, a suite, a project or a group, in a try of its
\* own.
Kinds ==
    [deleteSection |-> "sections", deleteSuite |-> "suites",
     deleteProject |-> "projects", deleteGroup |-> "groups"]

Counted(s, kind) ==
    [s EXCEPT !.stats = [@ EXCEPT ![kind] = [@ EXCEPT !.deleted = @ + 1]]]

DeleteEntity ==
    /\ script.pc = "running"
    /\ script.steps # <<>>
    /\ Current.op \in DOMAIN Kinds
    /\ \E resolved \in (IF script.dryRun THEN {TRUE} ELSE BOOLEAN) :
          LET issued == Issue(script, Current.op, Current.id)
              counted == IF ~script.dryRun /\ resolved
                         THEN Counted(issued, Kinds[Current.op]) ELSE issued
          IN  script' = [counted EXCEPT !.steps = Tail(script.steps)]
    /\ Scripted

\* helper.getGroups(), in a try.
GetGroups ==
    /\ Running("getGroups")
    /\ \E listing \in Listings :
          LET groups == Answered(listing, <<1, 2>>)
          IN  script' = [script EXCEPT
                             !.stats.groups.found =
                                 IF listing = "rejected" THEN @ ELSE Len(groups),
                             !.steps = Steps("group", 0, 0, groups)
                                       \o <<Step("summary", 0, 0, 0)>>]
    /\ Scripted

\* for (const group of groups)
VisitGroup ==
    /\ Running("group")
    /\ script' =
          IF isProtectedGroup(script.groups[Current.id])
          THEN [script EXCEPT !.stats.groups.protected = @ + 1,
                              !.steps = Tail(script.steps)]
          ELSE [script EXCEPT !.steps = <<Step("deleteGroup", 0, 0, Current.id)>>
                                        \o Tail(script.steps)]
    /\ Scripted

\* The summary is printed and the script ends.
Summary ==
    /\ Running("summary")
    /\ script' = [script EXCEPT !.pc = "done", !.steps = <<>>]
    /\ Scripted

NextCleanup ==
    \/ Main
    \/ GetProjects
    \/ VisitProject
    \/ VisitSuite
    \/ VisitSection
    \/ VisitCase
    \/ DeleteEntity
    \/ GetGroups
    \/ VisitGroup
    \/ Summary

SpecCleanup == InitCleanup /\ [][NextCleanup]_vars

(* ------------------------- tests/deleteTests.ts ------------------------ *)

\* The ids the write tests save, in the order the delete tests delete them,
\* and the helper method that deletes each.
StateIds == <<"testCaseId", "testSectionId", "testSuiteId", "testProjectId", "testGroupId">>

DeleteOf ==
    [testCaseId |-> "deleteCase", testSectionId |-> "deleteSection",
     testSuiteId |-> "deleteSuite", testProjectId |-> "deleteProject",
     testGroupId |-> "deleteGroup"]

\* The state files the delete tests can find: none, or one that holds the
\* id of a project and any of the other ids.
SavedIds ==
    [testCaseId : {None, Some(101)}, testSectionId : {None, Some(789)},
     testSuiteId : {None, Some(456)}, testProjectId : {Some(123)},
     testGroupId : {None, Some(202)}]

StateFiles == {None} \cup {Some(ids) : ids \in SavedIds}

\* A delete call is resolved, or rejected with a 403, or with another error.
Results == {"resolved", "403", "400"}

\* runTest(name, fn, options): what it counts for a result of fn.
runTest(stats, result, required, skipOnPermissionError) ==
    LET counted == [stats EXCEPT !.total = @ + 1]
    IN  IF result = "resolved" THEN [counted EXCEPT !.passed = @ + 1]
        ELSE IF skipOnPermissionError /\ result \in {"403", "401"}
        THEN [counted EXCEPT !.skipped = @ + 1]
        ELSE IF ~required THEN [counted EXCEPT !.skipped = @ + 1]
        ELSE [counted EXCEPT !.failed = @ + 1]

\* clearTestState(): the file is unlinked when it exists.
clearTestState(file) == None

InitDeleteTests ==
    /\ config = Null
    /\ supplied = Null
    /\ held = {}
    /\ NoCalls
    /\ startup = NotStarted
    /\ editor = NoEditor
    /\ tree = NoTree
    /\ \E file \in StateFiles :
          script = [pc |-> "start", file |-> file, ctx |-> None, next |-> 1,
                    calls |-> {}, left |-> {},
                    stats |-> [total |-> 0, passed |-> 0, failed |-> 0, skipped |-> 0]]

\* runDeleteTests: loadTestState(); without a state it returns false.
LoadTestState ==
    /\ script.pc = "start"
    /\ script' = IF IsDefined(script.file)
                 THEN [script EXCEPT !.pc = "deleting", !.ctx = ValueOf(script.file)]
                 ELSE [script EXCEPT !.pc = "noState"]
    /\ Scripted

\* if (ctx.testXId) { await runTest('deleteTestRailX', ...) }, one after the
\* other; an id whose delete was rejected is left in the service.
DeleteTest ==
    /\ script.pc = "deleting"
    /\ script.next <= Len(StateIds)
    /\ LET name == StateIds[script.next]
           id == script.ctx[name]
       IN  IF ~IsDefined(id) THEN script' = [script EXCEPT !.next = @ + 1]
           ELSE \E result \in Results :
                   script' = [script EXCEPT
                       !.next = @ + 1,
                       !.calls = @ \cup {<<DeleteOf[name], ValueOf(id)>>},
                       !.left = IF result = "resolved" THEN @ ELSE @ \cup {name},
                       !.stats = runTest(@, result, FALSE, name = "testGroupId")]
    /\ Scripted

\* clearTestState(); return true
ClearTestState ==
    /\ script.pc = "deleting"
    /\ script.next > Len(StateIds)
    /\ script' = [script EXCEPT !.pc = "done", !.file = clearTestState(@)]
    /\ Scripted

NextDeleteTests ==
    \/ LoadTestState
    \/ DeleteTest
    \/ ClearTestState

SpecDeleteTests == InitDeleteTests /\ [][NextDeleteTests]_vars

(* ------------------- the events of one call of request ----------------- *)

\* resolve and reject of `new Promise((resolve, reject) => ...)`: the first
\* of them settles the promise, a later one has no effect.
PromiseSettle(promise, result) == IF promise = Pending THEN result ELSE promise

\* The calls whose events are followed.
RequestCalls ==
    { [NoCall EXCEPT !.method = "getProject", !.id = Some(1)],
      [NoCall EXCEPT !.method = "getProjects"],
      [NoCall EXCEPT !.method = "deleteProject", !.id = Some(1)] }

InitRequest ==
    /\ config = [baseUrl |-> <<"https:", "//", "example.testrail.io">>,
                 email |-> AdminEmail, apiKey |-> AdminKey]
    /\ supplied = config
    /\ held = {1}
    /\ pc = "idle"
    /\ call = NoCall
    /\ wire = <<>>
    /\ res = NoResponse
    /\ data = <<>>
    /\ settled = Pending
    /\ outcome = Pending
    /\ follow = NoFollow
    /\ again = NoRepeat
    /\ sites = [s \in Sites |-> NoExchange]
    /\ startup = NotStarted
    /\ editor = NoEditor
    /\ script = NoScript
    /\ tree = NoTree

\* A caller calls a method: req.end() has written the request.
RequestInvoke ==
    /\ pc = "idle"
    /\ \E c \in RequestCalls : Begin(c)

\* The connection is closed after the response has begun and before its
\* 'end': res emits 'aborted' and 'close', for which the executor has no
\* listener, and the request emits no 'error'.
Abort ==
    /\ pc = "receiving"
    /\ pc' = "aborted"
    /\ res' = [res EXCEPT !.chunks = <<>>]
    /\ UNCHANGED <<config, supplied, held, call, wire, data, settled, outcome, follow,
                   again>>
    /\ UNCHANGED others

\* req 'error' after the response has ended: reject is called on the
\* promise that 'end' has settled.
LateError ==
    /\ pc = "settled"
    /\ res.statusCode # 0
    /\ \E e \in {Error(<<"socket hang up">>)} :
          settled' = PromiseSettle(settled, OnErrorSettle(e))
    /\ pc' = "closed"
    /\ UNCHANGED <<config, supplied, held, call, wire, res, data, outcome, follow, again>>
    /\ UNCHANGED others

NextRequest ==
    \/ RequestInvoke
    \/ Respond
    \/ OnData
    \/ OnEnd
    \/ OnError
    \/ Abort
    \/ LateError

\* What the socket brings about: the response or an error for a request
\* that was sent, the chunks of a response, and its end.
ResponseEvent == pc = "sent" /\ pc' \in {"receiving", "settled"}

EndEvent == pc = "receiving" /\ res.chunks = <<>> /\ pc' = "settled"

\* The socket answers a request or fails, and the event loop delivers every
\* event the socket has produced. Nothing says that a response that began
\* is not aborted.
SpecRequest ==
    /\ InitRequest /\ [][NextRequest]_vars
    /\ WF_pc(ResponseEvent) /\ WF_vars(OnData) /\ WF_pc(EndEvent)

(* ------------------------- TestRailTreeProvider ------------------------ *)

\* `limit` of the tree view's listings, 250 in the code, and the number of
\* times the tree view is refreshed.
TreeLimit == 1
MaxRefreshes == 1

\* The elements getChildren is called for: a project with several suites,
\* a project in single suite mode (suite 0) and suite 2 of project 1.
TreeElements == {"project", "single suite project", "suite"}

SuiteOf(element) == IF element = "suite" THEN 2 ELSE 0

\* new Map() of each cache; the key of an entry of sectionsCache is
\* `${projectId}-${suiteId}`.
NoCache == [key \in {<<1, 0>>, <<1, 2>>} |-> None]

InitialTree ==
    [pc |-> "idle", key |-> <<>>, sections |-> <<>>, offset |-> 0,
     sent |-> <<>>, pages |-> <<>>, issued |-> 0, done |-> FALSE,
     suitesCache |-> None, sectionsCache |-> NoCache,
     refreshes |-> 0, message |-> "none"]

\* response.suites || [] and the like: the ids of the list, when there is
\* one.
ListOf(response, member) ==
    LET list == Get(response, member)
    IN  IF list.t = "arr" THEN [k \in 1..Len(list.a) |-> Get(list.a[k], "id").n]
        ELSE <<>>

\* response._links?.next ? true : false
HasMore(response) == TruthyValue(LinkOf(response, "next"))

\* offset += limit
NextOffset_Skipping(offset, limit) == offset + limit + 1

NextOffset(offset, limit) == offset + limit

\* this.helper.getSections(projectId, suiteId === 0 ? undefined : suiteId,
\* limit, offset) and this.helper.getSuites(projectId, 250)
SectionsCall(key, offset) ==
    [NoCall EXCEPT !.method = "getSections", !.id = Some(key[1]),
                   !.suite_id = IF key[2] = 0 THEN None ELSE Some(key[2]),
                   !.limit = Some(TreeLimit), !.offset = Some(offset)]

SuitesCall == [NoCall EXCEPT !.method = "getSuites", !.id = Some(1), !.limit = Some(TreeLimit)]

InitTree ==
    /\ config = [baseUrl |-> <<"https:", "//", "example.testrail.io">>,
                 email |-> AdminEmail, apiKey |-> AdminKey]
    /\ supplied = config
    /\ held \in {1..n : n \in 2..MaxItems}
    /\ NoCalls
    /\ startup = NotStarted
    /\ editor = NoEditor
    /\ script = NoScript
    /\ tree = InitialTree

\* The tree view changes the tree and the helper's call only.
Beside == UNCHANGED <<sites, startup, editor, script>>

\* The call has been dealt with.
Idle ==
    /\ pc' = "idle"
    /\ call' = NoCall
    /\ wire' = <<>>
    /\ res' = NoResponse
    /\ data' = <<>>
    /\ settled' = Pending
    /\ outcome' = Pending
    /\ UNCHANGED <<config, supplied, held, follow, again>>

\* refresh(): the caches are cleared, whatever is in flight.
Refresh ==
    /\ tree.pc # "none"
    /\ tree.refreshes < MaxRefreshes
    /\ tree' = [tree EXCEPT !.suitesCache = None, !.sectionsCache = NoCache,
                            !.refreshes = @ + 1, !.done = FALSE]
    /\ UNCHANGED <<helper, sites, startup, editor, script>>

\* getChildren(element) of a project with several suites: getSuites, which
\* asks the helper when the cache has no entry.
GetSuites ==
    /\ tree.pc = "idle"
    /\ pc = "idle"
    /\ tree.suitesCache = None
    /\ tree' = [tree EXCEPT !.pc = "getSuites", !.issued = tree.refreshes,
                            !.message = "none"]
    /\ Start(SuitesCall)
    /\ Beside

\* The call of getSuites has settled: the list is cached, or getChildren
\* shows the error.
GetSuitesSettle ==
    /\ tree.pc = "getSuites"
    /\ pc = "settled"
    /\ tree' =
          IF outcome.kind = "rejected" \/ outcome.value.t \in {"null", "undefined"}
          THEN [tree EXCEPT !.pc = "idle", !.message = "error"]
          ELSE [tree EXCEPT !.pc = "idle",
                            !.suitesCache = Some([items |-> ListOf(outcome.value, "suites"),
                                                  issued |-> tree.issued])]
    /\ Idle
    /\ Beside

\* getChildren of a suite or of a project in single suite mode: getSections,
\* which fetches the pages when the cache has no entry.
GetSections ==
    /\ tree.pc = "idle"
    /\ pc = "idle"
    /\ \E element \in {"single suite project", "suite"} :
          LET key == <<1, SuiteOf(element)>>
              first == SectionsCall(key, 0)
          IN  /\ tree.sectionsCache[key] = None
              /\ tree' = [tree EXCEPT !.pc = "getSections", !.key = key,
                                      !.sections = <<>>, !.offset = 0,
                                      !.sent = <<request(config, ArgsOf(first))>>,
                                      !.pages = <<>>, !.issued = tree.refreshes,
                                      !.done = FALSE, !.message = "none"]
              /\ Start(first)
    /\ Beside

\* A page has been fetched: its sections are pushed, and the next page is
\* asked for when it names one; otherwise the list is cached. A call that
\* is rejected ends the loop and getChildren shows the error.
GetSectionsPage ==
    /\ tree.pc = "getSections"
    /\ pc = "settled"
    /\ IF outcome.kind = "rejected" \/ outcome.value.t \in {"null", "undefined"}
       THEN /\ tree' = [tree EXCEPT !.pc = "idle", !.message = "error"]
            /\ Idle
       ELSE LET response == outcome.value
                sections == tree.sections \o ListOf(response, "sections")
                offset == NextOffset(tree.offset, TreeLimit)
                next == SectionsCall(tree.key, offset)
            IN  IF HasMore(response)
                THEN /\ tree' = [tree EXCEPT
                                     !.sections = sections, !.offset = offset,
                                     !.pages = Append(@, response),
                                     !.sent = Append(@, request(config, ArgsOf(next)))]
                     /\ Start(next)
                ELSE /\ tree' = [tree EXCEPT
                                     !.pc = "idle", !.sections = sections,
                                     !.offset = offset, !.done = TRUE,
                                     !.pages = Append(@, response),
                                     !.sectionsCache[tree.key] =
                                         Some([items |-> sections, issued |-> tree.issued])]
                     /\ Idle
    /\ Beside

NextTree ==
    \/ Refresh
    \/ GetSuites
    \/ GetSuitesSettle
    \/ GetSections
    \/ GetSectionsPage
    \/ Respond
    \/ OnData
    \/ OnEnd
    \/ OnError

SpecTree == InitTree /\ [][NextTree]_vars

(* ------------------------ saves that overlap --------------------------- *)

\* The two ways saveToTestRail is entered: the 'save' message of the
\* preview and the command testrail.saveToTestRail. Neither waits for a
\* save that is under way.
Savers == {"preview", "command"}

NewCase == <<"case-new", ".testrail.yaml">>

InitSaves ==
    /\ config = [baseUrl |-> <<"https:", "//", "example.testrail.io">>,
                 email |-> AdminEmail, apiKey |-> AdminKey]
    /\ supplied = config
    /\ held = {1}
    /\ pc = "idle"
    /\ call = NoCall
    /\ wire = <<>>
    /\ res = NoResponse
    /\ data = <<>>
    /\ settled = Pending
    /\ outcome = Pending
    /\ follow = NoFollow
    /\ again = NoRepeat
    /\ sites = [s \in Savers |-> NoExchange]
    /\ startup = NotStarted
    /\ script = NoScript
    /\ tree = NoTree
    /\ editor = [NoEditor EXCEPT !.opened = {NewCase}, !.active = NewCase,
                                 !.text = (NewCase :> SaveDocuments[NewCase])]

\* saveToTestRail(document) is entered, once from each: it loads the
\* document as it is now and calls the helper.
SaveBy ==
    /\ \E s \in Savers :
          /\ sites[s].pc = "idle"
          /\ LET c == SaveCall(editor.active, Load(editor.text[editor.active]))
             IN  /\ c # NoCall
                 /\ sites' = [sites EXCEPT ![s] =
                                 [NoExchange EXCEPT !.pc = "sent", !.call = c,
                                                    !.wire = Transmit(config, ArgsOf(c))]]
    /\ UNCHANGED <<held, alone>>

\* The helper's promise of a save has settled: the id of a new entity is
\* written into the document, or the error is shown.
SaveBySettle ==
    /\ \E s \in Savers :
          LET c == sites[s].call
              o == sites[s].outcome
          IN  /\ sites[s].pc = "settled"
              /\ editor' =
                    IF o.kind = "rejected" THEN [editor EXCEPT !.message = "error"]
                    ELSE IF c.method \in UpdateMethods
                    THEN [editor EXCEPT !.message = "updated"]
                    ELSE IF o.value.t \in {"null", "undefined"}
                    THEN [editor EXCEPT !.message = "error"]
                    ELSE [editor EXCEPT !.message = "created",
                                        !.text[c.document] = Dump(Created(c.yaml, o.value))]
              /\ sites' = [sites EXCEPT ![s] = [NoExchange EXCEPT !.pc = "returned"]]
    /\ UNCHANGED <<helper, startup, script, tree>>

NextSaves ==
    \/ SaveBy
    \/ SaveBySettle
    \/ SiteRespond
    \/ SiteOnData
    \/ SiteOnEnd
    \/ SiteOnError

SpecSaves == InitSaves /\ [][NextSaves]_vars

(* ----------------------- edits sent from the preview -------------------- *)

\* The number of messages the preview sends.
MaxMessages == 3

\* data[key] = value
SetMember(object, key, value) ==
    IF \E i \in 1..Len(object.o) : object.o[i].k = key
    THEN JObj([i \in 1..Len(object.o) |->
                 IF object.o[i].k = key THEN Member(key, value) ELSE object.o[i]])
    ELSE JObj(Append(object.o, Member(key, value)))

\* data.custom_steps ? 'custom_steps' : 'custom_steps_separated'
StepsField(yamlData) ==
    IF TruthyValue(Get(yamlData, "custom_steps")) THEN "custom_steps" ELSE "custom_steps_separated"

\* updateFieldInDocument: the data with the field set; the field is the
\* name of a member or `<steps>.<index>.<member>`. A path into a step that
\* does not exist throws, and nothing is written.
updateField(yamlData, field, value) ==
    IF Len(field) = 1 THEN Some(SetMember(yamlData, field[1], value))
    ELSE LET steps == Get(yamlData, field[1])
             index == field[2] + 1
         IN  IF steps.t = "arr" /\ index <= Len(steps.a) /\ steps.a[index].t = "obj"
             THEN Some(SetMember(yamlData, field[1],
                          JArr([steps.a EXCEPT ![index] = SetMember(@, field[3], value)])))
             ELSE None

\* addStepToDocument: an empty step is pushed.
addStep(yamlData) ==
    LET steps == Get(yamlData, StepsField(yamlData))
        empty == JObj(<<Member("content", JStr(<<>>)), Member("expected", JStr(<<>>))>>)
    IN  Some(SetMember(yamlData, StepsField(yamlData),
                       JArr((IF TruthyValue(steps) THEN steps.a ELSE <<>>) \o <<empty>>)))

\* deleteStepFromDocument: data[stepsField].splice(index, 1), when there is
\* such an array; otherwise nothing is written.
deleteStep(yamlData, index) ==
    LET steps == Get(yamlData, StepsField(yamlData))
    IN  IF steps.t = "arr"
        THEN Some(SetMember(yamlData, StepsField(yamlData),
                  JArr(SubSeq(steps.a, 1, index) \o SubSeq(steps.a, index + 2, Len(steps.a)))))
        ELSE None

\* The messages of the preview: what each handler makes of the data.
Messages ==
    {[type |-> "updateField", field |-> f, value |-> JStr(<<v>>), index |-> 0] :
        f \in {<<"title">>, <<"custom_steps_separated", 0, "content">>}, v \in {"A", "B"}}
    \cup {[type |-> "addStep", field |-> <<>>, value |-> JNull, index |-> 0]}
    \cup {[type |-> "deleteStep", field |-> <<>>, value |-> JNull, index |-> 0]}

Handle(message, yamlData) ==
    CASE message.type = "updateField" -> updateField(yamlData, message.field, message.value)
      [] message.type = "addStep" -> addStep(yamlData)
      [] OTHER -> deleteStep(yamlData, message.index)

\* The documents the preview shows: a case with one step, and one without
\* steps.
EditedCase == <<"case-1", ".testrail.yaml">>

EditDocuments ==
    LET head == <<Member("entityType", JStr(<<"case">>)), Member("id", JNum(1)),
                  Member("title", JStr(<<"T">>))>>
        step == JObj(<<Member("content", JStr(<<"c">>)), Member("expected", JStr(<<>>))>>)
    IN  {Dump(JObj(head)),
         Dump(JObj(head \o <<Member("custom_steps_separated", JArr(<<step>>))>>))}

InitEdits ==
    /\ config = Null
    /\ supplied = Null
    /\ held = {1}
    /\ NoCalls
    /\ startup = NotStarted
    /\ script = NoScript
    /\ tree = NoTree
    /\ \E text \in EditDocuments :
          editor = [NoEditor EXCEPT !.opened = {EditedCase}, !.active = EditedCase,
                                    !.text = (EditedCase :> text),
                                    !.edited = Load(text)]

\* A message of the preview is handled (a 'deleteStep' once its dialog is
\* answered with 'Delete'): the handler loads the document as it is now and
\* asks the editor to replace the whole of it; the edit is applied later.
\* The preview sends messages for the fields and steps of the document it
\* shows.
\* `edited` is the data with the edits of all the messages, in their order.
OnDidReceiveMessage ==
    /\ editor.messages < MaxMessages
    /\ \E message \in Messages :
          LET made == Handle(message, Load(editor.text[EditedCase]))
              meant == Handle(message, editor.edited)
          IN  /\ IsDefined(made)
              /\ editor' = [editor EXCEPT
                    !.messages = @ + 1,
                    !.overlapped = @ \/ editor.pending # <<>>,
                    !.edited = IF IsDefined(meant) THEN ValueOf(meant) ELSE @,
                    !.pending = Append(@, [text |-> Dump(ValueOf(made)),
                                           version |-> editor.version])]
    /\ UNCHANGED <<helper, sites, startup, script, tree>>

\* vscode.workspace.applyEdit(edit): the editor applies the edits in the
\* order they were made. An edit made for a version of the document that is
\* no longer the current one is refused or applied all the same.
ApplyEdit ==
    /\ editor.pending # <<>>
    /\ LET edit == Head(editor.pending)
       IN  \E applied \in (IF edit.version = editor.version THEN {TRUE} ELSE BOOLEAN) :
              editor' = [editor EXCEPT
                  !.pending = Tail(@),
                  !.version = IF applied THEN @ + 1 ELSE @,
                  !.text[EditedCase] = IF applied THEN edit.text ELSE @]
    /\ UNCHANGED <<helper, sites, startup, script, tree>>

NextEdits ==
    \/ OnDidReceiveMessage
    \/ ApplyEdit

SpecEdits == InitEdits /\ [][NextEdits]_vars

(* ------------------------------- the claims ---------------------------- *)

\* The request the call in progress has sent, and the listing a walk began
\* with, taken apart as the service takes it apart.
Sent == wire[1]
Origin == ParsePath(follow.origin)
OriginAll == Selected(held, Origin.op, Origin.id, Origin.params)
OriginStart == NumParam(Origin.params, "offset", 0)
Min(a, b) == IF a < b THEN a ELSE b

\* C1: for every link L, requestNext(L) issues exactly one GET whose
\* path-and-query is '/index.php?/' followed by L with at most one leading
\* '/' removed, no other character of L dropped or re-encoded.
C1_LinkSentVerbatim ==
    call.method = "requestNext" =>
        /\ Len(wire) = 1
        /\ Sent.method = "GET"
        /\ Sent.path = IndexPhp \o (IF StartsWith(call.link, "/")
                                    THEN Substring1(call.link) ELSE call.link)

\* C2: when a listing returned an envelope E with a next link, the envelope
\* requestNext(E._links.next) returns has offset E.offset + E.limit and holds
\* exactly the entities at that offset of the collection every filter of the
\* original request selects.
C2_NextPageContinues ==
    (follow.state \in {"page", "done"} /\ follow.pages >= 2) =>
        LET offset == Get(follow.env, "offset").n
            limit == Get(follow.env, "limit").n
        IN  /\ offset = Get(follow.prev, "offset").n + Get(follow.prev, "limit").n
            /\ PageIds(follow.env)
                 = SubSeq(OriginAll, offset + 1, Min(offset + limit, Len(OriginAll)))
            /\ \A k \in 1..Len(PageIds(follow.env)) :
                 Matches(Entity(PageIds(follow.env)[k]), Origin.op, Origin.params)

\* A walk of a sections listing filtered by suite_id has fetched its second
\* page with requestNext.
C2_Witness ==
    /\ follow.state = "done"
    /\ follow.pages = 2
    /\ call.method = "requestNext"
    /\ Origin.op = "get_sections"
    /\ HasParam(Origin.params, "suite_id")
    /\ PageIds(follow.env) # <<>>

\* C3: following _links.next from a listing until it is null ends, and the
\* pages in request order hold every entity of the filtered collection
\* exactly once.  The walk ends because each page with a next link leaves
\* fewer entities to fetch: at most one page per entity is ever requested.
C3_WalkCoversCollection ==
    (follow.state \in {"page", "done"}) =>
        /\ follow.acc = SubSeq(OriginAll, OriginStart + 1,
                               OriginStart + Len(follow.acc))
        /\ follow.pages <= (IF Len(OriginAll) = 0 THEN 1 ELSE Len(OriginAll))
        /\ follow.state = "page" =>
             /\ Len(follow.acc) >= follow.pages
             /\ OriginStart + Len(follow.acc) < Len(OriginAll)
        /\ (follow.state = "done" /\ OriginStart = 0) => follow.acc = OriginAll

\* A walk from offset 0 with limit 2 over three entities has ended after
\* two pages, the second fetched with requestNext.
C3_Witness ==
    /\ follow.state = "done"
    /\ follow.pages = 2
    /\ OriginStart = 0
    /\ follow.acc = <<1, 2, 3>>
    /\ Get(follow.prev, "limit").n = 2
    /\ call.method = "requestNext"

\* The optional parameters of each listing method.
OptionalsOf(method) ==
    CASE method = "getProjects" -> {"is_completed", "limit", "offset"}
      [] method = "getSuites"   -> {"limit", "offset"}
      [] method = "getSections" -> {"suite_id", "limit", "offset"}
      [] method = "getCases"    -> {"suite_id", "section_id", "limit", "offset"}
      [] method = "getGroups"   -> {"limit", "offset"}
      [] method = "getUsers"    -> {"project_id"}
      [] OTHER                  -> {}

\* The value the path gives parameter name, as "&name=value"; None when the
\* path does not name it.
SentValue(path, name) ==
    IF \E i \in 1..(Len(path) - 3) :
            path[i] = "&" /\ path[i + 1] = name /\ path[i + 2] = "="
    THEN <<path[3 + CHOOSE i \in 1..(Len(path) - 3) :
                path[i] = "&" /\ path[i + 1] = name /\ path[i + 2] = "="]>>
    ELSE None

\* C4: in every listing method an optional parameter is in the query string
\* if and only if the caller supplied it, an explicit zero included.
C4_OptionalSentIffSupplied ==
    \A name \in OptionalsOf(call.method) :
        SentValue(Sent.path, name)
          = (IF IsDefined(call[name]) THEN Some(ToString(ValueOf(call[name])))
             ELSE None)

\* The text of the whole body of the response, decoded as one.
BodyText == BufferToString(res.body)

\* C5: request resolves exactly for the statuses 200..299: with the parsed
\* value of a body that is JSON, with {} for an empty body and with the
\* unchanged text of a body that is not JSON.
C5_SuccessValue ==
    (pc = "settled" /\ res.statusCode # 0) =>
        /\ (settled.kind = "resolved") = (res.statusCode >= 200 /\ res.statusCode < 300)
        /\ settled.kind = "resolved" =>
             settled.value = (IF BodyText = <<>> THEN JObj(<<>>)
                              ELSE IF JSONParse(BodyText).ok
                              THEN JSONParse(BodyText).v
                              ELSE JStr(BodyText))

\* C6: for a status outside 200..299 request fails with an error that
\* carries the status and the complete body; when no status was obtained it
\* fails with the underlying error.
C6_FailureCarriesStatusAndBody ==
    (pc = "settled" /\ ~(res.statusCode >= 200 /\ res.statusCode < 300)) =>
        /\ settled.kind = "rejected"
        /\ res.statusCode # 0 =>
             settled.error.message
               = <<"TestRail API error: ", ToString(res.statusCode), " - ">>
                 \o BodyText
        /\ res.statusCode = 0 => settled.error \in NetworkErrors

\* The kind of failure a status stands for; 0 is no status at all.
KindOf(statusCode) ==
    CASE statusCode = 401 -> "AuthenticationError"
      [] statusCode = 403 -> "PermissionError"
      [] statusCode = 404 -> "NotFoundError"
      [] statusCode = 0   -> "NetworkError"
      [] OTHER            -> "ServiceError"

\* C7: whatever method was called, a failure surfaces as the kind of its
\* status: 401 AuthenticationError, 403 PermissionError, 404 NotFoundError,
\* another status ServiceError, no status NetworkError.
C7_FailureKind ==
    (pc = "settled" /\ outcome.kind = "rejected") =>
        outcome.error.name = KindOf(res.statusCode)

\* C8: the error of a 403 from getGroups or getUsers differs from the error
\* a 403 with the same body gives getCases.
C8_EndpointToldApart ==
    (pc = "settled" /\ call.method \in {"getGroups", "getUsers"}
     /\ res.statusCode = 403) =>
        outcome.error # MethodSettle("getCases", OnEndSettle(403, data)).error

\* C9: a method call performs exactly one transport request, and when that
\* request fails the method rejects with the same error: no second request,
\* no success value in place of a failure.
C9_OneRequestNoRecovery ==
    /\ pc # "idle" => Len(wire) = 1
    /\ (pc = "settled" /\ settled.kind = "rejected") => outcome = settled
    /\ (pc = "settled" /\ ~(res.statusCode >= 200 /\ res.statusCode < 300)) =>
         outcome.kind = "rejected"

\* getUsers has been refused by the service and has rejected.
C9_Witness ==
    /\ pc = "settled"
    /\ call.method = "getUsers"
    /\ settled.kind = "rejected"
    /\ res.statusCode = 403

\* C10: every request carries the Authorization header 'Basic ' +
\* base64(email ':' apiKey) of the credentials given at construction, which
\* no operation changes.
C10_BasicAuthOfSuppliedCredentials ==
    /\ config = supplied
    /\ \A i \in 1..Len(wire) :
         /\ wire[i].headers.Authorization.scheme = "Basic"
         /\ Base64Decode(wire[i].headers.Authorization.token)
              = supplied.email \o <<Colon>> \o supplied.apiKey

\* requestNext has sent a request for a helper whose credentials need
\* base64 padding.
C10_Witness ==
    /\ pc = "sent"
    /\ call.method = "requestNext"
    /\ Len(wire) = 1
    /\ Len(supplied.email \o <<Colon>> \o supplied.apiKey) % 3 # 0

\* What `data` holds after the chunks, each decoded as it arrived.
RECURSIVE DecodeChunks(_)
DecodeChunks(chunks) ==
    IF chunks = <<>> THEN <<>>
    ELSE OnDataChunk(DecodeChunks(SubSeq(chunks, 1, Len(chunks) - 1)),
                     chunks[Len(chunks)])

\* C11: however the events of several outstanding calls interleave, each
\* call settles with the status and all the chunks of its own response and
\* with nothing of another's, exactly as it would settle alone; its request
\* is its own, and it holds the chunks of its own response while it
\* receives.
C11_CallsDoNotInterfere ==
    \A s \in Sites :
        LET x == sites[s] IN
        /\ x.pc # "idle" => x.wire = Transmit(config, ArgsOf(x.call))
        /\ x.pc = "receiving" => x.data = DecodeChunks(x.got)
        /\ (x.pc = "settled" /\ x.res.statusCode # 0) =>
             /\ Flatten(x.got) = x.res.body
             /\ x.outcome = MethodSettle(x.call.method,
                                OnEndSettle(x.res.statusCode, DecodeChunks(x.got)))
        /\ (x.pc = "settled" /\ x.res.statusCode = 0) =>
             /\ x.outcome.kind = "rejected"
             /\ x.outcome.error \in NetworkErrors

\* Two calls are outstanding and the chunks of their two different
\* responses arrive in turn: each has received a part of its own.
C11_Witness ==
    \E s, t \in Sites :
        /\ s # t
        /\ sites[s].pc = "receiving" /\ sites[t].pc = "receiving"
        /\ sites[s].got # <<>> /\ sites[s].res.chunks # <<>>
        /\ sites[t].got # <<>> /\ sites[t].res.chunks # <<>>
        /\ sites[s].res.statusCode = 200
        /\ sites[t].res.body # sites[s].res.body

\* C12: getUsers and getPriorities resolve with a plain sequence, never with
\* an object that could carry _links, whatever the successful response is: a
\* response that is an array is returned as it is, for getUsers an object
\* whose users member is an array gives that array, and every other response
\* gives the empty sequence.
C12_ListsArePlain ==
    (pc = "settled" /\ call.method \in {"getUsers", "getPriorities"}
     /\ settled.kind = "resolved") =>
        LET response == settled.value
            nested == call.method = "getUsers" /\ response.t = "obj"
                      /\ \E i \in 1..Len(response.o) :
                            response.o[i].k = "users" /\ response.o[i].v.t = "arr"
        IN  /\ outcome.kind = "resolved"
            /\ outcome.value.t = "arr"
            /\ outcome.value.o = <<>>
            /\ outcome.value =
                 (IF response.t = "arr" THEN response
                  ELSE IF nested
                  THEN response.o[CHOOSE i \in 1..Len(response.o) :
                                     response.o[i].k = "users"].v
                  ELSE JArr(<<>>))

\* getUsers was answered with a paginated envelope that has a next link and
\* has resolved with the two users of its page.
C12_Witness ==
    /\ pc = "settled"
    /\ call.method = "getUsers"
    /\ settled.kind = "resolved"
    /\ Get(Get(settled.value, "_links"), "next").t = "str"
    /\ outcome.value.t = "arr"
    /\ Len(outcome.value.a) = 2

\* The path of the base URL without its last '/': the prefix under which the
\* service is installed.
BasePrefix ==
    LET path == BasePath(config.baseUrl)
    IN  IF path # <<>> /\ path[Len(path)] = "/"
        THEN SubSeq(path, 1, Len(path) - 1) ELSE path

\* C13: every method sends its one request to the host and port of the
\* configured base URL, to a path that is the path prefix of the base URL
\* followed by '/index.php?/api/v2/<operation>...' ('/index.php?/' and the
\* link for requestNext), with GET for the get methods and requestNext and
\* POST for the add, update and delete methods.
C13_SentUnderBaseUrl ==
    pc # "idle" =>
        LET head == BasePrefix \o (IF call.method = "requestNext" THEN IndexPhp
                                   ELSE ApiV2)
        IN  /\ Len(wire) = 1
            /\ Sent.hostname = BaseHostname(config.baseUrl)
            /\ Sent.port = BasePort(config.baseUrl)
            /\ Len(Sent.path) >= Len(head)
            /\ SubSeq(Sent.path, 1, Len(head)) = head
            /\ Sent.method = (IF call.method \in AddMethods \cup UpdateMethods
                                                   \cup DeleteMethods
                              THEN "POST" ELSE "GET")

\* C14: an add or update method sends a JSON body whose members are exactly
\* the members of data, nothing added and nothing removed, and resolves with
\* the entity request resolved with.
C14_BodyIsData ==
    (pc # "idle" /\ call.method \in AddMethods \cup UpdateMethods) =>
        /\ JSONParse(Sent.body).ok
        /\ JSONParse(Sent.body).v = call.data
        /\ (pc = "settled" /\ settled.kind = "resolved") => outcome = settled

\* The value the lookup finds for a field: the setting when the extension
\* runs in VS Code and the setting holds a text, else the environment
\* variable when it holds a text, else none.
Found(f) ==
    IF startup.vscode /\ startup.settings[f].defined
       /\ startup.settings[f].text # <<>>
    THEN startup.settings[f]
    ELSE IF startup.env[f].defined /\ startup.env[f].text # <<>>
    THEN startup.env[f]
    ELSE Undefined

\* C15: when base URL, email or API key is absent or empty after the lookup
\* in the settings and then in the environment, loadTestRailConfig yields
\* null and activation constructs no helper; a helper is constructed exactly
\* when all three are found, and then with the three values found.
C15_NoHelperWithoutCredentials ==
    LET missing == \E f \in Fields : Found(f) = Undefined
    IN  /\ (loadTestRailConfig(startup) = Null) = missing
        /\ ~startup.activated => config = Null
        /\ startup.activated =>
             /\ (config = Null) = missing
             /\ config # Null => \A f \in Fields : config[f] = Found(f).text
             /\ supplied = config

\* The extension was activated with a base URL in the settings, an email in
\* the environment only and an API key that is the empty string in both: no
\* helper.
C15_Witness ==
    /\ startup.activated
    /\ startup.vscode
    /\ startup.settings.baseUrl = String(Given.settings.baseUrl)
    /\ startup.settings.email = Undefined
    /\ startup.env.email = String(Given.env.email)
    /\ startup.settings.apiKey = String(<<>>)
    /\ startup.env.apiKey = String(<<>>)
    /\ config = Null

\* C16: when a delete method is called a second time with the same id, the
\* second call settles as the answer to the second request says: it resolves
\* when that answer has a status 200..299 and rejects, with that status in
\* the error, when it has another; the method passes on what request
\* settled with, whatever the first call came to.
C16_SecondDeleteAsAnswered ==
    (pc = "settled" /\ again.times = 1 /\ call.method \in DeleteMethods) =>
        LET success == res.statusCode >= 200 /\ res.statusCode < 300
        IN  /\ (outcome.kind = "resolved") = success
            /\ (outcome.kind = "rejected") = ~success
            /\ outcome = settled
            /\ (~success /\ res.statusCode # 0) =>
                 /\ Len(outcome.error.message) >= 2
                 /\ outcome.error.message[2] = ToString(res.statusCode)

\* The first deleteCase resolved and removed the case; the second, for the
\* same id, was answered 400 by the service and rejected.
C16_Witness ==
    /\ pc = "settled"
    /\ again.times = 1
    /\ again.first = 200
    /\ again.settled.kind = "resolved"
    /\ call.method = "deleteCase"
    /\ ValueOf(call.id) \notin held
    /\ res.statusCode = 400
    /\ outcome.kind = "rejected"

\* The listing request the call in progress has sent, and the entities the
\* service selects for it.
Listed == ParsePath(Sent.path)
ListedAll == Selected(held, Listed.op, Listed.id, Listed.params)
ListingReturned ==
    /\ pc = "settled"
    /\ outcome.kind = "resolved"
    /\ IsEnvelope(outcome.value)
    /\ Listed.ok
    /\ Listed.op \in PagedOps

C18_ToolsPaginate ==
    (call.tool # "none" /\ config # Null) =>
        /\ \A name \in {"limit", "offset"} :
             IsDefined(call.input[name]) =>
                SentValue(Sent.path, name)
                  = Some(ToString(ValueOf(call.input[name])))
        /\ (pc = "settled" /\ outcome.kind = "resolved" /\ IsEnvelope(outcome.value)) =>
             LET result == ToolResult(call.tool, outcome)
             IN  /\ result.ok
                 /\ \A name \in {"offset", "limit", "size", "_links"} :
                      Get(result.data, name) = Get(outcome.value, name)

\* C19: whatever the user does, at most one preview panel is open, the
\* registry previewPanels holds exactly the open panels, and while a TestRail
\* YAML document is active no preview of another document is open.
C19_OnePreviewOpen ==
    /\ Cardinality(editor.panels) <= 1
    /\ {e.panel : e \in editor.previewPanels} = editor.panels
    /\ \A e \in editor.previewPanels : e.panel.documentUri = e.uri
    /\ \A p \in editor.panels :
         IsTestRailYaml(editor.active) => p.documentUri = editor.active

\* The preview of b.testrail.yaml is open, and showing it has closed the
\* preview of a.testrail.yaml, which is still an open document.
C19_Witness ==
    /\ editor.active = <<"b", ".testrail.yaml">>
    /\ <<"a", ".testrail.yaml">> \in editor.opened
    /\ \E p \in editor.panels : p.documentUri = editor.active
    /\ \E p \in editor.disposed : p.documentUri = <<"a", ".testrail.yaml">>

\* The id a document holds, and the entities the service has created.
IdIn(text) == Get(Load(text), "id")
CreatedIds == held \ {1}
Saving(methods) == pc # "idle" /\ call.document # <<>> /\ call.method \in methods

\* In every state: each entity the service has created is the id of one
\* document that had none at first, or is being returned to the save that
\* created it; a save that creates is of a document without id, a save of a
\* document with an id calls the update method for that id.
C20_Accounted ==
    /\ \A i \in CreatedIds :
         \/ /\ Cardinality({d \in DOMAIN editor.text : IdIn(editor.text[d]) = JNum(i)}) = 1
            /\ \A d \in DOMAIN editor.text :
                 IdIn(editor.text[d]) = JNum(i) => ~TruthyValue(IdIn(SaveDocuments[d]))
         \/ /\ Saving({"addCase", "addSection", "addProject", "addSuite"})
            /\ pc \in {"receiving", "settled"}
            /\ i = NextId(held) - 1
            /\ \A d \in DOMAIN editor.text : IdIn(editor.text[d]) # JNum(i)
    /\ Saving(AddMethods \cup {"getSuite"}) =>
         ~TruthyValue(IdIn(editor.text[call.document]))
    /\ (pc # "idle" /\ call.document # <<>> /\ TruthyValue(Get(call.yaml, "id"))) =>
         /\ call.method \in UpdateMethods
         /\ call.id = Some(Get(call.yaml, "id").n)
         /\ ParsePath(Sent.path).op \in UpdateOps
         /\ ParsePath(Sent.path).id = call.id
    /\ Cardinality(CreatedIds)
         <= Cardinality({d \in DOMAIN SaveDocuments :
                           ~TruthyValue(IdIn(SaveDocuments[d]))})

\* In every step: a save that was returned a new entity writes its id into
\* the document and changes nothing else of it, and no step of a save that
\* updates creates an entity.
C20_Step ==
    /\ (/\ Saving(AddMethods) /\ pc = "settled" /\ pc' = "idle"
        /\ outcome.kind = "resolved" /\ Get(outcome.value, "id").t = "num") =>
          /\ IdIn(editor'.text[call.document]) = Get(outcome.value, "id")
          /\ Get(outcome.value, "id").n \in held
          /\ \A m \in 1..Len(call.yaml.o) :
               Get(Load(editor'.text[call.document]), call.yaml.o[m].k)
                 = call.yaml.o[m].v
          /\ \A d \in DOMAIN editor.text \ {call.document} :
               editor'.text[d] = editor.text[d]
    /\ Saving(UpdateMethods) => held' = held /\ editor'.text = editor.text

C21_DeleteOnlyConfirmed ==
    LET d == editor.dialog
        id == IdIn(editor.text[d.document])
    IN  /\ pc # "idle" =>
             /\ call.method \in DeleteMethods
             /\ d.state = "answered" /\ d.choice = "Delete"
             /\ Len(wire) = 1
             /\ ParsePath(Sent.path).op \in DeleteOps
             /\ ParsePath(Sent.path).id = call.id
             /\ d.from = "tree" => call.method = "deleteCase" /\ call.id = Some(d.item)
             /\ d.from = "preview" =>
                  /\ d.document \in editor.opened
                  /\ TruthyValue(id)
                  /\ call.id = Some(id.n)
        /\ pc = "idle" => wire = <<>>

\* The user chose 'Delete' for the preview of case-1, and the service has
\* deleted case 1.
C21_Witness ==
    /\ pc = "settled"
    /\ editor.dialog.from = "preview"
    /\ editor.dialog.document = <<"case-1", ".testrail.yaml">>
    /\ editor.dialog.choice = "Delete"
    /\ call.method = "deleteCase"
    /\ outcome.kind = "resolved"
    /\ held = {2}

\* C22: an entity that was opened has its YAML in the file
\* .testrail/<entityType>-<entityId>.testrail.yaml, and the file of every
\* entity and of every draft that was opened still holds what opening it
\* wrote, whatever else has been opened since.
C22_FilesKept ==
    \A what \in DOMAIN editor.written :
        LET w == editor.written[what]
        IN  /\ what.id # 0 =>
                 w.file = <<".testrail/", what.entityType, "-",
                            NumberToString(what.id), ".testrail.yaml">>
            /\ editor.files[w.file] = w.content

\* The delete calls of the cleanup script.
CleanupDeletes == {"deleteCase", "deleteSection", "deleteSuite", "deleteProject", "deleteGroup"}

\* The project an entity of the script's listings lies in: its id begins
\* with the id of the project.
RECURSIVE ProjectOf(_)
ProjectOf(id) == IF id < 10 THEN id ELSE ProjectOf(id \div 10)

\* C23: run without --confirm and without -y, the cleanup script calls none
\* of deleteCase, deleteSection, deleteSuite, deleteProject and deleteGroup,
\* whatever the listings hold.
C23_DryRunDeletesNothing ==
    (script.pc # "none" /\ \A i \in 1..Len(script.args) :
                               script.args[i] \notin {"--confirm", "-y"})
        => script.calls = {}

\* A dry run has ended after it came to cases, sections, suites, projects
\* and groups it would have deleted.
C23_Witness ==
    /\ script.pc = "done"
    /\ script.dryRun
    /\ \A method \in CleanupDeletes : \E id \in 1..2222 : <<method, id>> \in script.would

\* C24: run with --confirm, the script deletes no project whose name
\* matches /^Sample Project$/i, nothing that lies in such a project, and no
\* group named Lead, Tester, Designer or Administrator.
C24_ProtectedKept ==
    script.pc # "none" =>
        \A called \in script.calls :
            IF called[1] = "deleteGroup"
            THEN ~ \E pattern \in PROTECTED_GROUP_PATTERNS :
                       Test(pattern, script.groups[called[2]])
            ELSE ~ Test(<<"Sample", " ", "Project">>, script.names[ProjectOf(called[2])])

\* A run with --confirm has ended: it passed over a protected project and a
\* protected group, and deleted the other project and the other group.
C24_Witness ==
    /\ script.pc = "done"
    /\ ~script.dryRun
    /\ script.stats.projects.protected = 1
    /\ script.stats.groups.protected = 1
    /\ script.stats.projects.deleted = 1
    /\ script.stats.groups.deleted = 1
    /\ script.stats.cases.deleted = 2

\* C25: the state file is deleted only after a cleanup in which every
\* delete succeeded; when a delete has failed, the file still holds the
\* saved ids once the delete tests have ended.
C25_StateKeptOnFailure ==
    (script.pc = "done" /\ "left" \in DOMAIN script /\ script.left # {})
        => /\ IsDefined(script.file)
           /\ \A name \in script.left : ValueOf(script.file)[name] = script.ctx[name]

\* Once a call of request has settled, no later resolve or reject changes
\* what it settled with.
C26_SettledStays == [][settled # Pending /\ pc' # "sent" => settled' = settled]_vars

\* A call of request whose response is not aborted settles in the end.
C26_SettlesUnlessAborted == (pc = "sent") ~> (settled # Pending \/ pc = "aborted")

\* C26: every call of request settles in the end, and settles once: after
\* whatever 'data', 'end' and 'error' events, an 'error' after the end of
\* the response and a response aborted before its 'end' among them.
C26_SettlesExactlyOnce ==
    /\ (pc = "sent") ~> (settled # Pending)
    /\ [][settled # Pending /\ pc' # "sent" => settled' = settled]_vars

\* The request requestNext sends for the next link of a page.
LinkRequest(page) == request(config, requestNext(LinkOf(page, "next").s))

\* The sections a listing of the loop selects in the service.
TreeSelected ==
    Selected(held, "get_sections", Some(tree.key[1]),
             IF tree.key[2] = 0 THEN <<>>
             ELSE <<[k |-> "suite_id", v |-> <<ToString(tree.key[2])>>]>>)

\* C27: the loop of getSections asks for the pages at offsets 0, limit,
\* 2 * limit, ... until a page has no next link; each request after the
\* first is the request requestNext sends for the next link of the page
\* before, so the list that is cached is the pages of that walk one after
\* the other, and when every page is an envelope of the service it is the
\* sections of the listing, each once and in their order.
C27_LoopFollowsLinks ==
    tree.pc # "none" =>
        /\ \A k \in 1..Len(tree.sent) :
              /\ tree.sent[k] = request(config, ArgsOf(SectionsCall(tree.key, (k - 1) * TreeLimit)))
              /\ k > 1 => /\ HasMore(tree.pages[k - 1])
                          /\ tree.sent[k] = LinkRequest(tree.pages[k - 1])
        /\ tree.done =>
              /\ Len(tree.pages) = Len(tree.sent)
              /\ ~HasMore(tree.pages[Len(tree.pages)])
              /\ IsDefined(tree.sectionsCache[tree.key])
              /\ ValueOf(tree.sectionsCache[tree.key]).items
                    = Flatten([k \in 1..Len(tree.pages) |-> ListOf(tree.pages[k], "sections")])
              /\ (\A k \in 1..Len(tree.pages) : IsEnvelope(tree.pages[k]))
                    => ValueOf(tree.sectionsCache[tree.key]).items = TreeSelected

\* The loop has ended after three pages and has cached three sections.
C27_Witness ==
    /\ tree.pc = "idle"
    /\ tree.done
    /\ Len(tree.pages) = 3
    /\ IsDefined(tree.sectionsCache[<<1, 0>>])
    /\ ValueOf(tree.sectionsCache[<<1, 0>>]).items = <<1, 2, 3>>

\* C28: once refresh() has returned, no entry of a cache of the tree view
\* holds data of a request that was issued before that refresh.
C28_NoStaleEntries ==
    tree.pc # "none" =>
        /\ IsDefined(tree.suitesCache) => ValueOf(tree.suitesCache).issued = tree.refreshes
        /\ \A key \in DOMAIN tree.sectionsCache :
              IsDefined(tree.sectionsCache[key])
                  => ValueOf(tree.sectionsCache[key]).issued = tree.refreshes

\* C29: when a second save of a document without id begins before the
\* first has ended, still at most one entity is created for the document.
C29_OneEntityPerDocument == DOMAIN sites = Savers => Cardinality(CreatedIds) <= 1

\* Messages that are each handled after the edit of the one before has been
\* applied leave the document with every edit, in their order.
C30_EditsKeptInTurn ==
    (editor.pending = <<>> /\ ~editor.overlapped /\ editor.edited # JUndefined)
        => Load(editor.text[EditedCase]) = editor.edited

\* C30: after any sequence of updateField, addStep and deleteStep messages,
\* a handler reading the document while the edit of the one before is not
\* yet applied included, the document shows every edit, applied in the order
\* the messages came.
C30_EditsKept ==
    (editor.pending = <<>> /\ editor.edited # JUndefined)
        => Load(editor.text[EditedCase]) = editor.edited

====
